---- MODULE Spec2Model ----
(***************************************************************************)
(* Model of minecraft-environment-deployment: the connected-clients        *)
(* counter (src/src/clients_counter/lib/clients_counter.py) kept in one    *)
(* DynamoDB row and the invocations that mutate it.                        *)
(***************************************************************************)
EXTENDS Integers, Sequences, FiniteSets, TLC

\* ------------------------------------------------------------------ bounds
NumCallers == 3
MaxRecords == 2
MaxBatchEvents == 3
MaxTokens == 4

\* ------------------------------------------------------- python conversions
DigitChars == <<"0", "1", "2", "3", "4", "5", "6", "7", "8", "9">>

IsDigit(c) == \E i \in 1..10 : DigitChars[i] = c

DigitValue(c) == (CHOOSE i \in 1..10 : DigitChars[i] = c) - 1

RECURSIVE DigitsOf(_)
DigitsOf(n) ==
    IF n < 10 THEN <<DigitChars[n + 1]>>
    ELSE Append(DigitsOf(n \div 10), DigitChars[(n % 10) + 1])

\* str(count) of a python int
py_str(n) == IF n < 0 THEN <<"-">> \o DigitsOf(0 - n) ELSE DigitsOf(n)

RECURSIVE DigitsValue(_)
DigitsValue(s) ==
    IF s = <<>> THEN 0
    ELSE 10 * DigitsValue(SubSeq(s, 1, Len(s) - 1)) + DigitValue(s[Len(s)])

AllDigits(s) == \A i \in 1..Len(s) : IsDigit(s[i])

\* int(text) of a decimal string; ok = FALSE stands for ValueError
py_int(s) ==
    LET body == IF s # <<>> /\ s[1] \in {"-", "+"} THEN Tail(s) ELSE s
        neg == s # <<>> /\ s[1] = "-"
    IN IF body = <<>> \/ ~AllDigits(body) THEN [ok |-> FALSE, value |-> 0]
       ELSE [ok |-> TRUE,
             value |-> IF neg THEN 0 - DigitsValue(body) ELSE DigitsValue(body)]

RECURSIVE SumSeq(_)
SumSeq(s) == IF s = <<>> THEN 0 ELSE s[1] + SumSeq(Tail(s))

\* ------------------------------------------------------------ the DynamoDB row
\* The row with key 'counter': absent, or holding the number attribute 'count'.
NoItem == [exists |-> FALSE, N |-> <<>>]

NoMessage == [sent |-> FALSE, N |-> <<>>]

NoneEvent == [tag |-> "None"]

\* cw.list_metrics finds no metric of that namespace and name
NoMetric == [exists |-> FALSE, Values |-> <<>>]

VARIABLES
    item,       \* the 'counter' row of the table
    history,    \* adds in the order the store serialized them
    pc,         \* position of each invocation
    kind,       \* which entry point the invocation runs
    event,      \* self.event of the command (the argument of a direct caller)
    mark,       \* number of adds the store had served when the invocation began
    states,     \* log states count() still has to iterate over
    results,    \* the list count() of the log command builds
    logged,     \* the count records the invocation wrote to its log
    arg,        \* argument of the update_item call in progress
    req,        \* update_item request in flight to the store
    resp,       \* update_item response in flight from the store
    ret,        \* integer returned by the last completed call
    outcome,    \* "none", "returned", or the name of the raised error
    snapshot,   \* the dict count() of the alarm-to-series command returned
    metric_data, \* the CloudWatch metric the alarm-to-series command queries
    stack,      \* the CloudFormation stack the switcher targets
    trace,      \* the calls each invocation made, in order
    table_name, \* self._table_name of the switcher
    overrode_parameters, \* argument of update_cloudformation_stack
    params,     \* params of update_cloudformation_stack
    log_states  \* the list of lists analyze_log_text returned

vars == <<item, history, pc, kind, event, mark, states, results, logged,
          arg, req, resp, ret, outcome, snapshot, metric_data,
          stack, trace, table_name, overrode_parameters, params, log_states>>

series == <<snapshot, metric_data>>

switcher == <<stack, table_name, overrode_parameters, params>>

None == "None"

NoStack == [exists |-> FALSE, Parameters |-> <<>>]

Procs == DOMAIN pc

\* value of the row as the switcher reads it: 0 when the row does not exist
CounterValue(it) == IF it.exists THEN py_int(it.N).value ELSE 0

\* ------------------------------------------------- CounterTable.update_item
\* the request: ADD #count :count with :count = {'N': str(count)}
update_item_request(count) == [sent |-> TRUE, N |-> py_str(count)]

\* what the store does with ADD: a missing row or attribute counts as 0
\* (variants: SET instead of ADD; a floor at zero)
dynamodb_ADD_set(it, r) == [exists |-> TRUE, N |-> r.N]

dynamodb_ADD_floor(it, r) ==
    LET v == CounterValue(it) + py_int(r.N).value
    IN [exists |-> TRUE, N |-> py_str(IF v < 0 THEN 0 ELSE v)]

dynamodb_ADD(it, r) ==
    [exists |-> TRUE, N |-> py_str(CounterValue(it) + py_int(r.N).value)]

\* ReturnValues='UPDATED_NEW': the attribute as it is after the update
\* (variant: UPDATED_OLD)
dynamodb_UPDATED_OLD(old, new) == [sent |-> TRUE, N |-> IF old.exists THEN old.N ELSE <<"0">>]

dynamodb_UPDATED_NEW(old, new) == [sent |-> TRUE, N |-> new.N]

\* int(result['Attributes']['count']['N'])
update_item_result(r) == py_int(r.N).value

\* a caller sends the request of update_item(count)
SendUpdate(p, count) ==
    /\ arg' = [arg EXCEPT ![p] = count]
    /\ req' = [req EXCEPT ![p] = update_item_request(count)]

\* the store serves one request atomically
DynamoUpdateItem(p) ==
    /\ UNCHANGED series
    /\ UNCHANGED <<switcher, trace, log_states>>
    /\ req[p].sent
    /\ LET new == dynamodb_ADD(item, req[p])
       IN /\ item' = new
          /\ resp' = [resp EXCEPT ![p] = dynamodb_UPDATED_NEW(item, new)]
          /\ history' = Append(history,
                 [proc |-> p, delta |-> arg[p], prev |-> item, new |-> new])
    /\ req' = [req EXCEPT ![p] = NoMessage]
    /\ arg' = [arg EXCEPT ![p] = 0]
    /\ UNCHANGED <<pc, kind, event, mark, states, results, logged, ret, outcome>>

\* ------------------------------------------- direct callers of update_item
Deltas == {0 - 2, 0, 3, 4}

TableCall(p, d) ==
    /\ UNCHANGED series
    /\ UNCHANGED <<switcher, trace, log_states>>
    /\ kind[p] = "table"
    /\ pc[p] = "idle"
    /\ SendUpdate(p, d)
    /\ pc' = [pc EXCEPT ![p] = "wait"]
    /\ UNCHANGED <<item, history, kind, event, mark, states, results, logged,
                   resp, ret, outcome>>

TableReturn(p) ==
    /\ UNCHANGED series
    /\ UNCHANGED <<switcher, trace, log_states>>
    /\ kind[p] = "table"
    /\ pc[p] = "wait"
    /\ resp[p].sent
    /\ ret' = [ret EXCEPT ![p] = update_item_result(resp[p])]
    /\ resp' = [resp EXCEPT ![p] = NoMessage]
    /\ pc' = [pc EXCEPT ![p] = "done"]
    /\ outcome' = [outcome EXCEPT ![p] = "returned"]
    /\ UNCHANGED <<item, history, kind, event, mark, states, results, logged, arg, req>>

\* ------------------------------------------------------- Kinesis log batches
\* A message is a sequence of text atoms; 'x in message' and startswith are
\* evaluated on the atoms.
Tokens == {"user", "joined", "left", "CWL", "CONTROL", "MESSAGE"}

Contains(msg, pat) ==
    \E i \in 1..(Len(msg) - Len(pat) + 1) : SubSeq(msg, i, i + Len(pat) - 1) = pat

StartsWith(msg, pat) ==
    Len(msg) >= Len(pat) /\ SubSeq(msg, 1, Len(pat)) = pat

JOINED == "JOINED"

LEFT == "LEFT"

INITIAL_ACTIVATION_OF_KINESIS_DATA_STREAM == "INITIAL_ACTIVATION_OF_KINESIS_DATA_STREAM"

UnknownLogState == "UnknownLogState"

\* the layers of record['kinesis']['data']: base64(gzip(json(payload)))
json_dumps(x) == <<"json", x>>

gzip_compress(x) == <<"gzip", x>>

base64_b64encode(x) == <<"base64", x>>

json_loads(x) == IF x[1] = "json" THEN x[2] ELSE <<"JSONDecodeError">>

gzip_decompress(x) == IF x[1] = "gzip" THEN x[2] ELSE <<"BadGzipFile">>

base64_b64decode(x) == IF x[1] = "base64" THEN x[2] ELSE <<"binascii.Error">>

\* the event a Kinesis subscription delivers for the given groups of messages
kinesis_event(groups) ==
    [tag |-> "dict",
     Records |-> [i \in 1..Len(groups) |->
        [kinesis |-> [data |-> base64_b64encode(gzip_compress(json_dumps(
            [logEvents |-> [j \in 1..Len(groups[i]) |->
                               [message |-> groups[i][j]]]])))]]]]

decode_event_records(ev) ==
    [tag |-> "dict",
     Records |-> [i \in 1..Len(ev.Records) |->
        [kinesis |-> [data |->
            json_loads(gzip_decompress(base64_b64decode(ev.Records[i].kinesis.data)))]]]]

\* the if/elif chain applied to one message (variants: 'left' tested first;
\* an unrecognised line taken for a control message)
log_state_left_first(message) ==
    IF Contains(message, <<"left">>) THEN LEFT
    ELSE IF Contains(message, <<"joined">>) THEN JOINED
    ELSE IF StartsWith(message, <<"CWL", "CONTROL", "MESSAGE">>)
         THEN INITIAL_ACTIVATION_OF_KINESIS_DATA_STREAM
    ELSE UnknownLogState

log_state_lenient(message) ==
    IF Contains(message, <<"joined">>) THEN JOINED
    ELSE IF Contains(message, <<"left">>) THEN LEFT
    ELSE INITIAL_ACTIVATION_OF_KINESIS_DATA_STREAM

log_state(message) ==
    IF Contains(message, <<"joined">>) THEN JOINED
    ELSE IF Contains(message, <<"left">>) THEN LEFT
    ELSE IF StartsWith(message, <<"CWL", "CONTROL", "MESSAGE">>)
         THEN INITIAL_ACTIVATION_OF_KINESIS_DATA_STREAM
    ELSE UnknownLogState

\* analyze_log_text: the whole batch is classified into a list of lists before
\* it returns; one unrecognised message makes it raise instead
\* (variant: the control messages leave no state behind)
analyze_log_text_skip_control(ev) ==
    LET decoded == decode_event_records(ev)
        classified ==
            [i \in 1..Len(decoded.Records) |->
                LET logEvents == decoded.Records[i].kinesis.data.logEvents
                IN [j \in 1..Len(logEvents) |-> log_state(logEvents[j].message)]]
        kept(st) == st # INITIAL_ACTIVATION_OF_KINESIS_DATA_STREAM
        raised == \E i \in 1..Len(classified) :
                     \E j \in 1..Len(classified[i]) :
                        classified[i][j] = UnknownLogState
    IN [raised |-> raised,
        value |-> IF raised THEN <<>>
                  ELSE [i \in 1..Len(classified) |-> SelectSeq(classified[i], kept)]]

analyze_log_text(ev) ==
    LET decoded == decode_event_records(ev)
        results_list ==
            [i \in 1..Len(decoded.Records) |->
                LET logEvents == decoded.Records[i].kinesis.data.logEvents
                IN [j \in 1..Len(logEvents) |-> log_state(logEvents[j].message)]]
        raised == \E i \in 1..Len(results_list) :
                     \E j \in 1..Len(results_list[i]) :
                        results_list[i][j] = UnknownLogState
    IN [raised |-> raised, value |-> IF raised THEN <<>> ELSE results_list]

\* itertools.chain.from_iterable (variant: the groups taken last to first)
RECURSIVE chain_from_iterable_reversed(_)
chain_from_iterable_reversed(lists) ==
    IF lists = <<>> THEN <<>>
    ELSE chain_from_iterable_reversed(Tail(lists)) \o lists[1]

RECURSIVE chain_from_iterable(_)
chain_from_iterable(lists) ==
    IF lists = <<>> THEN <<>> ELSE lists[1] \o chain_from_iterable(Tail(lists))

\* the two branches of the loop body that call the store (variant: every
\* state is counted)
IsCounted_any(state) == TRUE

IsCounted(state) == state = JOINED \/ state = LEFT

\* (variant: a left line adds one as well)
LogDelta_unsigned(state) == IF state = JOINED \/ state = LEFT THEN 1 ELSE 0

LogDelta(state) == IF state = JOINED THEN 1 ELSE IF state = LEFT THEN 0 - 1 ELSE 0

\* CountCommandFromCloudWatchLogsToDynamoDB(event=...) is constructed
LogsInvoke(p, ev) ==
    /\ UNCHANGED series
    /\ UNCHANGED <<switcher, trace, log_states>>
    /\ kind[p] = "logs"
    /\ pc[p] = "idle"
    /\ event' = [event EXCEPT ![p] = ev]
    /\ mark' = [mark EXCEPT ![p] = Len(history)]
    /\ pc' = [pc EXCEPT ![p] = "analyze"]
    /\ UNCHANGED <<item, history, kind, states, results, logged, arg, req, resp,
                   ret, outcome>>

\* count() evaluates self.analyze_log_text() and chains its result
\* (variant: the deltas before the first unrecognised line are applied
\* before the error surfaces)
LogsAnalyze_eager(p) ==
    /\ UNCHANGED series
    /\ UNCHANGED <<switcher, trace>>
    /\ kind[p] = "logs"
    /\ pc[p] = "analyze"
    /\ log_states' = [log_states EXCEPT ![p] = analyze_log_text(event[p]).value]
    /\ LET decoded == decode_event_records(event[p])
           flat == chain_from_iterable(
                     [i \in 1..Len(decoded.Records) |->
                        LET logEvents == decoded.Records[i].kinesis.data.logEvents
                        IN [j \in 1..Len(logEvents) |-> log_state(logEvents[j].message)]])
           bad == {i \in 1..Len(flat) : flat[i] = UnknownLogState}
       IN IF bad = {}
          THEN /\ states' = [states EXCEPT ![p] = flat]
               /\ pc' = [pc EXCEPT ![p] = "loop"]
               /\ UNCHANGED <<item, history, outcome>>
          ELSE LET first == CHOOSE i \in bad : \A j \in bad : i <= j
                   total == SumSeq([i \in 1..(first - 1) |-> LogDelta(flat[i])])
                   new == [exists |-> TRUE, N |-> py_str(CounterValue(item) + total)]
               IN /\ item' = IF first > 1 THEN new ELSE item
                  /\ history' = IF first > 1
                                THEN Append(history, [proc |-> p, delta |-> total,
                                                      prev |-> item, new |-> new])
                                ELSE history
                  /\ outcome' = [outcome EXCEPT ![p] = UnknownLogState]
                  /\ pc' = [pc EXCEPT ![p] = "done"]
                  /\ UNCHANGED states
    /\ UNCHANGED <<kind, event, mark, results, logged, arg, req, resp, ret>>

LogsAnalyze(p) ==
    /\ UNCHANGED series
    /\ UNCHANGED <<switcher, trace>>
    /\ kind[p] = "logs"
    /\ pc[p] = "analyze"
    /\ LET analyzed == analyze_log_text(event[p])
       IN IF analyzed.raised
          THEN /\ outcome' = [outcome EXCEPT ![p] = UnknownLogState]
               /\ pc' = [pc EXCEPT ![p] = "done"]
               /\ UNCHANGED <<states, log_states>>
          ELSE /\ log_states' = [log_states EXCEPT ![p] = analyzed.value]
               /\ states' = [states EXCEPT ![p] = chain_from_iterable(analyzed.value)]
               /\ pc' = [pc EXCEPT ![p] = "loop"]
               /\ UNCHANGED outcome
    /\ UNCHANGED <<item, history, kind, event, mark, results, logged, arg, req,
                   resp, ret>>

\* one pass of the loop body up to the store call, or past a state that is
\* not counted
LogsCountNext(p) ==
    /\ UNCHANGED series
    /\ UNCHANGED <<switcher, trace, log_states>>
    /\ kind[p] = "logs"
    /\ pc[p] = "loop"
    /\ states[p] # <<>>
    /\ IF IsCounted(Head(states[p]))
       THEN /\ SendUpdate(p, LogDelta(Head(states[p])))
            /\ pc' = [pc EXCEPT ![p] = "wait"]
            /\ UNCHANGED states
       ELSE /\ states' = [states EXCEPT ![p] = Tail(@)]
            /\ UNCHANGED <<pc, arg, req>>
    /\ UNCHANGED <<item, history, kind, event, mark, results, logged, resp, ret,
                   outcome>>

\* update_item returns: the total is logged and appended to results
LogsCountReceive(p) ==
    /\ UNCHANGED series
    /\ UNCHANGED <<switcher, trace, log_states>>
    /\ kind[p] = "logs"
    /\ pc[p] = "wait"
    /\ resp[p].sent
    /\ LET result == update_item_result(resp[p])
           state == Head(states[p])
       IN /\ results' = [results EXCEPT ![p] = Append(@, result)]
          /\ logged' = [logged EXCEPT ![p] = Append(@,
                [connected_count |-> result,
                 joined_count |-> IF state = JOINED THEN 1 ELSE 0,
                 left_count |-> IF state = JOINED THEN 0 ELSE 1])]
    /\ states' = [states EXCEPT ![p] = Tail(@)]
    /\ resp' = [resp EXCEPT ![p] = NoMessage]
    /\ pc' = [pc EXCEPT ![p] = "loop"]
    /\ UNCHANGED <<item, history, kind, event, mark, arg, req, ret, outcome>>

\* the loop is exhausted: return results
LogsCountReturn(p) ==
    /\ UNCHANGED series
    /\ UNCHANGED <<switcher, trace, log_states>>
    /\ kind[p] = "logs"
    /\ pc[p] = "loop"
    /\ states[p] = <<>>
    /\ outcome' = [outcome EXCEPT ![p] = "returned"]
    /\ pc' = [pc EXCEPT ![p] = "done"]
    /\ UNCHANGED <<item, history, kind, event, mark, states, results, logged, arg,
                   req, resp, ret>>

\* the lines of the server log and of the subscription, one of each shape
LogMessages ==
    { <<"user", "joined">>, <<"user", "left">>,
      <<"CWL", "CONTROL", "MESSAGE">>, <<"user">> }

SeqsUpTo(S, n) == UNION {[1..k -> S] : k \in 0..n}

\* how len events are dealt to at most MaxRecords records
Cuts(len) ==
    {c \in UNION {[1..r -> 0..len] : r \in 1..MaxRecords} : SumSeq(c) = len}

RECURSIVE Deal(_, _)
Deal(flat, cut) ==
    IF cut = <<>> THEN <<>>
    ELSE <<SubSeq(flat, 1, cut[1])>>
            \o Deal(SubSeq(flat, cut[1] + 1, Len(flat)), Tail(cut))

\* ----------------------------------------------------- alarm notifications
\* A float is num / den with den a power of ten.
RECURSIVE Pow10(_)
Pow10(n) == IF n = 0 THEN 1 ELSE 10 * Pow10(n - 1)

\* float(text) for a text over the characters 0-9 . - ; ok = FALSE stands
\* for ValueError
py_float(s) ==
    LET neg == s # <<>> /\ s[1] = "-"
        body == IF neg THEN Tail(s) ELSE s
        dots == {i \in 1..Len(body) : body[i] = "."}
        dot == IF dots = {} THEN Len(body) + 1 ELSE CHOOSE i \in dots : TRUE
        whole == SubSeq(body, 1, dot - 1)
        frac == SubSeq(body, dot + 1, Len(body))
        ok == /\ Cardinality(dots) <= 1
              /\ AllDigits(whole) /\ AllDigits(frac)
              /\ Len(whole) + Len(frac) >= 1
        mag == DigitsValue(whole \o frac)
    IN IF ok
       THEN [ok |-> TRUE,
             value |-> [num |-> IF neg THEN 0 - mag ELSE mag, den |-> Pow10(Len(frac))]]
       ELSE [ok |-> FALSE, value |-> [num |-> 0, den |-> 1]]

\* int(x) of a float: the fraction is dropped (variant: floor)
py_int_of_float_floor(x) == x.num \div x.den

py_int_of_float(x) ==
    IF x.num >= 0 THEN x.num \div x.den ELSE 0 - ((0 - x.num) \div x.den)

\* NewStateReason: plain text with bracketed segments '[<number> (<time>)]';
\* the number is whatever [0-9.-]* captured
ReasonText(numbers) ==
    <<[part |-> "text", number |-> <<>>]>>
    \o [i \in 1..(2 * Len(numbers)) |->
          IF i % 2 = 1 THEN [part |-> "datapoint", number |-> numbers[(i + 1) \div 2]]
          ELSE [part |-> "text", number |-> <<>>]]

IsDatapointPart(x) == x.part = "datapoint"

\* re.findall(r'\[([0-9.-]*)\s*\([^)]*\)\]', text)
re_findall(text) ==
    LET found == SelectSeq(text, IsDatapointPart)
    IN [i \in 1..Len(found) |-> found[i].number]

\* NotificationAnalysis.extract_datapoint: float(findall(...)[0])
\* (variant: 0.0 when nothing is found)
extract_datapoint_default(notification_log_from_sns) ==
    LET found == re_findall(notification_log_from_sns)
    IN IF found = <<>>
       THEN [raised |-> "none", value |-> [num |-> 0, den |-> 1]]
       ELSE IF ~py_float(found[1]).ok
       THEN [raised |-> "ValueError", value |-> [num |-> 0, den |-> 1]]
       ELSE [raised |-> "none", value |-> py_float(found[1]).value]

extract_datapoint(notification_log_from_sns) ==
    LET found == re_findall(notification_log_from_sns)
    IN IF found = <<>>
       THEN [raised |-> "IndexError", value |-> [num |-> 0, den |-> 1]]
       ELSE IF ~py_float(found[1]).ok
       THEN [raised |-> "ValueError", value |-> [num |-> 0, den |-> 1]]
       ELSE [raised |-> "none", value |-> py_float(found[1]).value]

joined_alarm_name == "joined_alarm"

left_alarm_name == "left_alarm"

AlarmNotFoundError == "AlarmNotFoundError"

\* the SNS event of a CloudWatch alarm state change
alarm_event(alarm_name, reason) ==
    [tag |-> "dict",
     Records |-> <<[Sns |-> [Message |-> json_dumps(
                      [AlarmName |-> alarm_name, NewStateReason |-> reason])]]>>]

\* which branch of count() the alarm name selects (variant: the last branch
\* is taken for the left alarm)
alarm_branch_else_left(alarm_name) ==
    IF alarm_name = joined_alarm_name THEN "joined" ELSE "left"

alarm_branch(alarm_name) ==
    IF alarm_name = joined_alarm_name THEN "joined"
    ELSE IF alarm_name = left_alarm_name THEN "left"
    ELSE "none"

\* the argument of update_item in the two branches (variant: no sign)
alarm_delta_unsigned(branch, metric) == metric

alarm_delta(branch, metric) == IF branch = "joined" THEN metric ELSE 0 - metric

\* a count command of one of the alarm classes is constructed
AlarmInvoke(p, ev) ==
    /\ UNCHANGED series
    /\ UNCHANGED <<switcher, trace, log_states>>
    /\ kind[p] \in {"alarm_dynamodb", "alarm_cloudwatch_logs"}
    /\ pc[p] = "idle"
    /\ event' = [event EXCEPT ![p] = ev]
    /\ mark' = [mark EXCEPT ![p] = Len(history)]
    /\ pc' = [pc EXCEPT ![p] = "count"]
    /\ UNCHANGED <<item, history, kind, states, results, logged, arg, req, resp,
                   ret, outcome>>

\* CountCommandFromCloudWatchAlarmToDynamoDB.count up to the store call
AlarmCount(p) ==
    /\ UNCHANGED series
    /\ UNCHANGED <<switcher, trace, log_states>>
    /\ kind[p] = "alarm_dynamodb"
    /\ pc[p] = "count"
    /\ LET message == json_loads(event[p].Records[1].Sns.Message)
           datapoint == extract_datapoint(message.NewStateReason)
           metric == py_int_of_float(datapoint.value)
           branch == alarm_branch(message.AlarmName)
       IN IF datapoint.raised # "none"
          THEN /\ outcome' = [outcome EXCEPT ![p] = datapoint.raised]
               /\ pc' = [pc EXCEPT ![p] = "done"]
               /\ UNCHANGED <<arg, req>>
          ELSE IF branch = "none"
          THEN /\ outcome' = [outcome EXCEPT ![p] = AlarmNotFoundError]
               /\ pc' = [pc EXCEPT ![p] = "done"]
               /\ UNCHANGED <<arg, req>>
          ELSE /\ SendUpdate(p, alarm_delta(branch, metric))
               /\ pc' = [pc EXCEPT ![p] = "wait"]
               /\ UNCHANGED outcome
    /\ UNCHANGED <<item, history, kind, event, mark, states, results, logged,
                   resp, ret>>

\* ... and from the return of update_item: log the counts, return the total
AlarmReceive(p) ==
    /\ UNCHANGED series
    /\ UNCHANGED <<switcher, trace, log_states>>
    /\ kind[p] = "alarm_dynamodb"
    /\ pc[p] = "wait"
    /\ resp[p].sent
    /\ LET message == json_loads(event[p].Records[1].Sns.Message)
           metric == py_int_of_float(extract_datapoint(message.NewStateReason).value)
           joined == alarm_branch(message.AlarmName) = "joined"
           result_metric == update_item_result(resp[p])
       IN /\ logged' = [logged EXCEPT ![p] = Append(@,
                [connected_count |-> result_metric,
                 joined_count |-> IF joined THEN metric ELSE 0,
                 left_count |-> IF joined THEN 0 ELSE metric])]
          /\ ret' = [ret EXCEPT ![p] = result_metric]
    /\ resp' = [resp EXCEPT ![p] = NoMessage]
    /\ outcome' = [outcome EXCEPT ![p] = "returned"]
    /\ pc' = [pc EXCEPT ![p] = "done"]
    /\ UNCHANGED <<item, history, kind, event, mark, states, results, arg, req>>

\* get_previous_metric: the last value of the series, 0.0 without a metric
\* (variant: the first value)
get_previous_metric_first(data) ==
    IF data.exists
    THEN IF data.Values = <<>>
         THEN [raised |-> "IndexError", value |-> [num |-> 0, den |-> 1]]
         ELSE [raised |-> "none", value |-> data.Values[1]]
    ELSE [raised |-> "none", value |-> [num |-> 0, den |-> 1]]

get_previous_metric(data) ==
    IF data.exists
    THEN IF data.Values = <<>>
         THEN [raised |-> "IndexError", value |-> [num |-> 0, den |-> 1]]
         ELSE [raised |-> "none", value |-> data.Values[Len(data.Values)]]
    ELSE [raised |-> "none", value |-> [num |-> 0, den |-> 1]]

\* CountCommandFromCloudWatchAlarmToCloudWatchLogs.count
AlarmSeriesCount(p) ==
    /\ kind[p] = "alarm_cloudwatch_logs"
    /\ pc[p] = "count"
    /\ LET message == json_loads(event[p].Records[1].Sns.Message)
           previous == get_previous_metric(metric_data)
           previous_metric == py_int_of_float(previous.value)
           datapoint == extract_datapoint(message.NewStateReason)
           metric == py_int_of_float(datapoint.value)
           branch == alarm_branch(message.AlarmName)
       IN IF previous.raised # "none"
          THEN /\ outcome' = [outcome EXCEPT ![p] = previous.raised]
               /\ UNCHANGED snapshot
          ELSE IF datapoint.raised # "none"
          THEN /\ outcome' = [outcome EXCEPT ![p] = datapoint.raised]
               /\ UNCHANGED snapshot
          ELSE IF branch = "none"
          THEN /\ outcome' = [outcome EXCEPT ![p] = AlarmNotFoundError]
               /\ UNCHANGED snapshot
          ELSE /\ outcome' = [outcome EXCEPT ![p] = "returned"]
               /\ snapshot' = [snapshot EXCEPT ![p] =
                    <<[previous_count |-> previous_metric,
                       connected_count |-> IF branch = "joined"
                                           THEN previous_metric + metric
                                           ELSE previous_metric - metric,
                       joined_count |-> IF branch = "joined" THEN metric ELSE 0,
                       left_count |-> IF branch = "joined" THEN 0 ELSE metric]>>]
    /\ pc' = [pc EXCEPT ![p] = "done"]
    /\ UNCHANGED <<item, history, kind, event, mark, states, results, logged,
                   arg, req, resp, ret, metric_data>>
    /\ UNCHANGED <<switcher, trace, log_states>>

\* the names and reason texts notifications arrive with
AlarmNames == {joined_alarm_name, left_alarm_name, "unknown_alarm"}

DatapointNumbers ==
    { <<"3", ".", "0">>, <<"2", ".", "5">>, <<"2", ".", "9">>, <<"0", ".", "9">>,
      <<"-", "1", ".", "5">>, <<"1", "2">>, <<>>, <<"1", ".", "2", ".", "3">> }

ReasonTexts ==
    {ReasonText(<<n>>) : n \in DatapointNumbers}
    \cup {ReasonText(<<>>), ReasonText(<<<<"1", ".", "0">>, <<"3", ".", "0">>>>)}

AlarmKinds == {"alarm_dynamodb", "alarm_cloudwatch_logs"}

MetricStates ==
    { NoMetric,
      [exists |-> TRUE, Values |-> <<>>],
      [exists |-> TRUE, Values |-> <<[num |-> 0, den |-> 1], [num |-> 25, den |-> 10]>>] }

\* -------------------------------------------------------- MinecraftSwitcher
\* python dicts are functions on the keys they hold
dict_get(d, k, default) == IF k \in DOMAIN d THEN d[k] ELSE default

\* del d[k] (variant: the key stays)
dict_del_keep(d, k) == d

dict_del(d, k) == [x \in DOMAIN d \ {k} |-> d[x]]

dict_or(d, e) == [x \in DOMAIN d \cup DOMAIN e |-> IF x \in DOMAIN e THEN e[x] ELSE d[x]]

NotFoundStackError == "NotFoundStackError"

UnnecessaryToUpdateStackError == "UnnecessaryToUpdateStackError"

UserStillConnectedError == "UserStillConnectedError"

ClientError == "ClientError"

\* dynamodb.get_item: the response holds 'Item' only when the row exists
dynamodb_get_item(it) ==
    IF it.exists THEN [Item |-> [count |-> [N |-> it.N]]] ELSE <<>>

\* the comparison of _is_connected_any_users (variants: >= 0, and < 0)
is_connected_nonnegative(result) ==
    py_int(dict_get(dict_get(dict_get(result, "Item", <<>>), "count", <<>>),
                    "N", <<"0">>)).value >= 0

is_connected_negative(result) ==
    py_int(dict_get(dict_get(dict_get(result, "Item", <<>>), "count", <<>>),
                    "N", <<"0">>)).value < 0

is_connected(result) ==
    py_int(dict_get(dict_get(dict_get(result, "Item", <<>>), "count", <<>>),
                    "N", <<"0">>)).value > 0

\* get_cloudformation_parameters: None when describe_stacks raises
\* (variant: an empty list)
get_cloudformation_parameters_empty(st) ==
    [is_none |-> FALSE, Parameters |-> IF st.exists THEN st.Parameters ELSE <<>>]

get_cloudformation_parameters(st) ==
    IF st.exists THEN [is_none |-> FALSE, Parameters |-> st.Parameters]
    ELSE [is_none |-> TRUE, Parameters |-> <<>>]

\* MinecraftSwitcher._override_param_if_need (variant: every named key is
\* overridden)
override_param_always(param, overrode) ==
    IF param.ParameterKey \in DOMAIN overrode
    THEN [param EXCEPT !.ParameterValue = overrode[param.ParameterKey]]
    ELSE dict_or(dict_del(param, "ParameterValue"), [UsePreviousValue |-> TRUE])

_override_param_if_need(param, overrode) ==
    IF param.ParameterKey \in DOMAIN overrode
         /\ param.ParameterValue # overrode[param.ParameterKey]
    THEN [param EXCEPT !.ParameterValue = overrode[param.ParameterKey]]
    ELSE dict_or(dict_del(param, "ParameterValue"), [UsePreviousValue |-> TRUE])

\* all((p.get('UsePreviousValue') for p in params))
all_use_previous(ps) ==
    \A i \in 1..Len(ps) : dict_get(ps[i], "UsePreviousValue", FALSE)

\* cfn.update_stack with UsePreviousTemplate: a parameter is either given a
\* value or reuses the previous one; giving both is rejected, and so is a
\* stack that does not exist
update_stack_accepts(st, ps) ==
    /\ st.exists
    /\ \A i \in 1..Len(ps) :
          ~(dict_get(ps[i], "UsePreviousValue", FALSE) /\ "ParameterValue" \in DOMAIN ps[i])

stack_value(st, key) ==
    LET hit == {i \in 1..Len(st.Parameters) : st.Parameters[i].ParameterKey = key}
    IN st.Parameters[CHOOSE i \in hit : TRUE].ParameterValue

update_stack_result(st, ps) ==
    [exists |-> TRUE,
     Parameters |-> [i \in 1..Len(ps) |->
        [ParameterKey |-> ps[i].ParameterKey,
         ParameterValue |-> IF "ParameterValue" \in DOMAIN ps[i]
                            THEN ps[i].ParameterValue
                            ELSE stack_value(st, ps[i].ParameterKey)]]]

\* MinecraftSwitcher(...) is constructed and update_cloudformation_stack called
SwitchInvoke(p, table, overrode) ==
    /\ UNCHANGED log_states
    /\ kind[p] = "switch"
    /\ pc[p] = "idle"
    /\ table_name' = [table_name EXCEPT ![p] = table]
    /\ overrode_parameters' = [overrode_parameters EXCEPT ![p] = overrode]
    /\ mark' = [mark EXCEPT ![p] = Len(history)]
    /\ pc' = [pc EXCEPT ![p] = "guard"]
    /\ UNCHANGED <<item, history, kind, event, states, results, logged, arg, req,
                   resp, ret, outcome, series, stack, trace, params>>

\* variants of the guard step: one that looks for the stack before it reads
\* the counter, and one that reads the counter through an add of 0
SwitchGuard_stack_first(p) ==
    /\ UNCHANGED log_states
    /\ kind[p] = "switch"
    /\ pc[p] = "guard"
    /\ IF get_cloudformation_parameters(stack).is_none
       THEN /\ trace' = [trace EXCEPT ![p] =
                   Append(@, [op |-> "describe_stacks", found |-> stack])]
            /\ outcome' = [outcome EXCEPT ![p] = NotFoundStackError]
            /\ pc' = [pc EXCEPT ![p] = "done"]
       ELSE LET connected == IF table_name[p] = None THEN FALSE
                             ELSE is_connected(dynamodb_get_item(item))
            IN /\ trace' = [trace EXCEPT ![p] =
                      IF table_name[p] = None THEN @
                      ELSE Append(@, [op |-> "get_item", row |-> item])]
               /\ IF connected
                  THEN /\ outcome' = [outcome EXCEPT ![p] = UserStillConnectedError]
                       /\ pc' = [pc EXCEPT ![p] = "done"]
                  ELSE /\ pc' = [pc EXCEPT ![p] = "describe"]
                       /\ UNCHANGED outcome
    /\ UNCHANGED <<item, history, kind, event, mark, states, results, logged, arg,
                   req, resp, ret, series, stack, table_name, overrode_parameters,
                   params>>

SwitchGuard_by_add(p) ==
    /\ UNCHANGED log_states
    /\ kind[p] = "switch"
    /\ pc[p] = "guard"
    /\ LET connected == IF table_name[p] = None THEN FALSE
                        ELSE is_connected(dynamodb_get_item(item))
       IN /\ trace' = [trace EXCEPT ![p] =
                 IF table_name[p] = None THEN @
                 ELSE Append(@, [op |-> "get_item", row |-> item])]
          /\ item' = IF table_name[p] = None THEN item
                     ELSE [exists |-> TRUE, N |-> py_str(CounterValue(item))]
          /\ IF connected
             THEN /\ outcome' = [outcome EXCEPT ![p] = UserStillConnectedError]
                  /\ pc' = [pc EXCEPT ![p] = "done"]
             ELSE /\ pc' = [pc EXCEPT ![p] = "describe"]
                  /\ UNCHANGED outcome
    /\ UNCHANGED <<history, kind, event, mark, states, results, logged, arg,
                   req, resp, ret, series, stack, table_name, overrode_parameters,
                   params>>

\* line 92-93: _is_connected_any_users, one get_item unless table_name is None
SwitchGuard(p) ==
    /\ UNCHANGED log_states
    /\ kind[p] = "switch"
    /\ pc[p] = "guard"
    /\ LET connected == IF table_name[p] = None THEN FALSE
                        ELSE is_connected(dynamodb_get_item(item))
       IN /\ trace' = [trace EXCEPT ![p] =
                 IF table_name[p] = None THEN @
                 ELSE Append(@, [op |-> "get_item", row |-> item])]
          /\ IF connected
             THEN /\ outcome' = [outcome EXCEPT ![p] = UserStillConnectedError]
                  /\ pc' = [pc EXCEPT ![p] = "done"]
             ELSE /\ pc' = [pc EXCEPT ![p] = "describe"]
                  /\ UNCHANGED outcome
    /\ UNCHANGED <<item, history, kind, event, mark, states, results, logged, arg,
                   req, resp, ret, series, stack, table_name, overrode_parameters,
                   params>>

\* line 95-98: get_cloudformation_parameters, None when describe_stacks fails
SwitchDescribe(p) ==
    /\ UNCHANGED log_states
    /\ kind[p] = "switch"
    /\ pc[p] = "describe"
    /\ trace' = [trace EXCEPT ![p] = Append(@, [op |-> "describe_stacks", found |-> stack])]
    /\ LET got == get_cloudformation_parameters(stack)
       IN IF got.is_none
          THEN /\ outcome' = [outcome EXCEPT ![p] = NotFoundStackError]
               /\ pc' = [pc EXCEPT ![p] = "done"]
               /\ UNCHANGED params
          ELSE /\ params' = [params EXCEPT ![p] = got.Parameters]
               /\ pc' = [pc EXCEPT ![p] = "merge"]
               /\ UNCHANGED outcome
    /\ UNCHANGED <<item, history, kind, event, mark, states, results, logged, arg,
                   req, resp, ret, series, stack, table_name, overrode_parameters>>

\* line 100-111: the merge, then update_stack or UnnecessaryToUpdateStackError
SwitchUpdate(p) ==
    /\ UNCHANGED log_states
    /\ kind[p] = "switch"
    /\ pc[p] = "merge"
    /\ LET merged == [i \in 1..Len(params[p]) |->
                        _override_param_if_need(params[p][i], overrode_parameters[p])]
       IN /\ params' = [params EXCEPT ![p] = merged]
          /\ IF ~all_use_previous(merged)
             THEN /\ trace' = [trace EXCEPT ![p] =
                        Append(@, [op |-> "update_stack", Parameters |-> merged])]
                  /\ IF update_stack_accepts(stack, merged)
                     THEN /\ stack' = update_stack_result(stack, merged)
                          /\ outcome' = [outcome EXCEPT ![p] = "returned"]
                     ELSE /\ outcome' = [outcome EXCEPT ![p] = ClientError]
                          /\ UNCHANGED stack
             ELSE /\ outcome' = [outcome EXCEPT ![p] = UnnecessaryToUpdateStackError]
                  /\ UNCHANGED <<stack, trace>>
    /\ pc' = [pc EXCEPT ![p] = "done"]
    /\ UNCHANGED <<item, history, kind, event, mark, states, results, logged, arg,
                   req, resp, ret, series, table_name, overrode_parameters>>

\* the stacks, tables and override maps the switcher is run with
ParameterKeys == {"A", "B"}

ParameterValues == {"1", "9"}

OverrideMaps == UNION {[ks -> ParameterValues] : ks \in SUBSET ParameterKeys}

StackParameters ==
    { <<>>,
      <<[ParameterKey |-> "A", ParameterValue |-> "1"]>>,
      <<[ParameterKey |-> "A", ParameterValue |-> "1"],
        [ParameterKey |-> "B", ParameterValue |-> "2"]>>,
      <<[ParameterKey |-> "A", ParameterValue |-> "1", UsePreviousValue |-> TRUE]>>,
      <<[ParameterKey |-> "A", ParameterValue |-> "1", UsePreviousValue |-> FALSE],
        [ParameterKey |-> "B", ParameterValue |-> "2"]>>,
      <<[ParameterKey |-> "A", ParameterValue |-> "1", UsePreviousValue |-> TRUE],
        [ParameterKey |-> "B", ParameterValue |-> "2"]>> }

Stacks == {NoStack} \cup {[exists |-> TRUE, Parameters |-> ps] : ps \in StackParameters}

TableNames == {None, "TestTable"}

\* what the writer next to the switch adds to the counter
GuardDeltas == {0 - 2, 0, 3}

\* ------------------------------------------------ MinecraftSwitcher.__init__
\* python values by type: None, a str of characters, a list of items
py_none == [type |-> "NoneType", value |-> <<>>]

py_string(chars) == [type |-> "str", value |-> chars]

py_list(items) == [type |-> "list", value |-> items]

\* a bare raise outside an except block
RuntimeError == "RuntimeError"

\* type(stack_name) is str and len(stack_name)
\* (variant: the type alone is tested)
is_str(stack_name) == stack_name.type = "str"

is_nonempty_str(stack_name) == stack_name.type = "str" /\ Len(stack_name.value) # 0

\* MinecraftSwitcher(stack_name, table_name, primary_key_column_name)
SwitchConstruct(p, stack_name, table, primary_key) ==
    /\ kind[p] = "constructor"
    /\ pc[p] = "idle"
    /\ event' = [event EXCEPT ![p] = [tag |-> "args", stack_name |-> stack_name,
                                      table_name |-> table,
                                      primary_key_column_name |-> primary_key]]
    /\ IF is_nonempty_str(stack_name)
       THEN /\ table_name' = [table_name EXCEPT ![p] = table]
            /\ outcome' = [outcome EXCEPT ![p] = "returned"]
       ELSE /\ outcome' = [outcome EXCEPT ![p] = RuntimeError]
            /\ UNCHANGED table_name
    /\ pc' = [pc EXCEPT ![p] = "done"]
    /\ UNCHANGED <<item, history, kind, mark, states, results, logged, arg, req,
                   resp, ret, series, stack, trace, overrode_parameters, params,
                   log_states>>

StackNames ==
    { py_none, py_string(<<>>), py_list(<<"not", "string", "info">>), py_list(<<>>),
      py_string(<<"S">>), py_string(<<"S", "a", "m", "p", "l", "e">>) }

PrimaryKeys == {None, "id"}

\* ------------------------------------------------------------ ClientsCounter
UnknownEventSource == "UnknownEventSource"

\* the expression in the try block of check_event_source of the log command:
\* len(event['Records']) >= 1 and event['Records'][0]['kinesis']
kinesis_source(ev) ==
    IF ev.tag = "None" THEN [raised |-> "TypeError", truthy |-> FALSE]
    ELSE IF "Records" \notin DOMAIN ev THEN [raised |-> "KeyError", truthy |-> FALSE]
    ELSE IF Len(ev.Records) < 1 THEN [raised |-> "none", truthy |-> FALSE]
    ELSE IF "kinesis" \notin DOMAIN ev.Records[1]
    THEN [raised |-> "KeyError", truthy |-> FALSE]
    ELSE [raised |-> "none", truthy |-> ev.Records[1].kinesis # <<>>]

\* ... and of the alarm commands: event['Records'][0]['Sns']['Message']
sns_source(ev) ==
    IF ev.tag = "None" THEN [raised |-> "TypeError", truthy |-> FALSE]
    ELSE IF "Records" \notin DOMAIN ev THEN [raised |-> "KeyError", truthy |-> FALSE]
    ELSE IF Len(ev.Records) < 1 THEN [raised |-> "IndexError", truthy |-> FALSE]
    ELSE IF "Sns" \notin DOMAIN ev.Records[1]
    THEN [raised |-> "KeyError", truthy |-> FALSE]
    ELSE IF "Message" \notin DOMAIN ev.Records[1].Sns
    THEN [raised |-> "KeyError", truthy |-> FALSE]
    ELSE [raised |-> "none", truthy |-> ev.Records[1].Sns.Message # <<>>]

\* except (KeyError, TypeError): raise UnknownEventSource()
check_event_source(command, ev) ==
    LET r == IF command = "logs" THEN kinesis_source(ev) ELSE sns_source(ev)
    IN IF r.raised \in {"KeyError", "TypeError"}
       THEN [raised |-> UnknownEventSource, truthy |-> FALSE]
       ELSE r

\* the condition of ClientsCounter.count (variant: count unless the check raised)
checked_unless_raised(r) == r.raised = "none"

checked(r) == r.raised = "none" /\ r.truthy

CommandKinds == {"logs", "alarm_dynamodb", "alarm_cloudwatch_logs"}

\* ClientsCounter(command_class, event=...) is constructed
CounterInvoke(p, ev) ==
    /\ UNCHANGED log_states
    /\ kind[p] \in CommandKinds
    /\ pc[p] = "idle"
    /\ event' = [event EXCEPT ![p] = ev]
    /\ mark' = [mark EXCEPT ![p] = Len(history)]
    /\ pc' = [pc EXCEPT ![p] = "check"]
    /\ UNCHANGED <<item, history, kind, states, results, logged, arg, req, resp,
                   ret, outcome, series, switcher, trace>>

\* ClientsCounter.count: check_event_source, then the command's count() starts
CounterCount(p) ==
    /\ UNCHANGED log_states
    /\ kind[p] \in CommandKinds
    /\ pc[p] = "check"
    /\ LET r == check_event_source(kind[p], event[p])
           checking == [op |-> "check_event_source", raised |-> r.raised,
                        truthy |-> r.truthy]
       IN IF r.raised # "none"
          THEN /\ trace' = [trace EXCEPT ![p] = Append(@, checking)]
               /\ outcome' = [outcome EXCEPT ![p] = r.raised]
               /\ pc' = [pc EXCEPT ![p] = "done"]
          ELSE IF checked(r)
          THEN /\ trace' = [trace EXCEPT ![p] =
                     @ \o <<checking, [op |-> "count", raised |-> "none", truthy |-> TRUE]>>]
               /\ pc' = [pc EXCEPT ![p] = IF kind[p] = "logs" THEN "analyze" ELSE "count"]
               /\ UNCHANGED outcome
          ELSE /\ trace' = [trace EXCEPT ![p] = Append(@, checking)]
               /\ outcome' = [outcome EXCEPT ![p] = "returned"]
               /\ pc' = [pc EXCEPT ![p] = "done"]
    /\ UNCHANGED <<item, history, kind, event, mark, states, results, logged, arg,
                   req, resp, ret, series, switcher>>

\* events that are not what the trigger delivers
MalformedEvents ==
    { NoneEvent,
      [tag |-> "dict"],
      [tag |-> "dict", Records |-> <<>>],
      [tag |-> "dict", Records |-> <<[eventSource |-> "aws:s3"]>>],
      [tag |-> "dict", Records |-> <<[kinesis |-> <<>>]>>],
      [tag |-> "dict", Records |-> <<[Sns |-> [Subject |-> "ALARM"]]>>],
      [tag |-> "dict", Records |-> <<[Sns |-> [Message |-> <<>>]]>>] }

CounterEvents ==
    MalformedEvents
    \cup {kinesis_event(<< <<m>> >>) : m \in LogMessages}
    \cup {kinesis_event(<< << <<"user", "joined">>, <<"user", "left">> >>,
                           << <<"CWL", "CONTROL", "MESSAGE">>, <<"user", "joined">> >> >>)}
    \cup {alarm_event(n, ReasonText(<<x>>)) :
            n \in AlarmNames, x \in {<<"3", ".", "0">>, <<"2", ".", "5">>, <<>>}}
    \cup {alarm_event(joined_alarm_name, ReasonText(<<>>))}

\* ---------------------------------------------------------- specifications
InitCommon(kinds) ==
    /\ item = NoItem
    /\ history = <<>>
    /\ kind = kinds
    /\ pc = [p \in DOMAIN kinds |-> "idle"]
    /\ event = [p \in DOMAIN kinds |-> NoneEvent]
    /\ mark = [p \in DOMAIN kinds |-> 0]
    /\ states = [p \in DOMAIN kinds |-> <<>>]
    /\ results = [p \in DOMAIN kinds |-> <<>>]
    /\ logged = [p \in DOMAIN kinds |-> <<>>]
    /\ arg = [p \in DOMAIN kinds |-> 0]
    /\ req = [p \in DOMAIN kinds |-> NoMessage]
    /\ resp = [p \in DOMAIN kinds |-> NoMessage]
    /\ ret = [p \in DOMAIN kinds |-> 0]
    /\ outcome = [p \in DOMAIN kinds |-> "none"]
    /\ snapshot = [p \in DOMAIN kinds |-> <<>>]
    /\ trace = [p \in DOMAIN kinds |-> <<>>]
    /\ table_name = [p \in DOMAIN kinds |-> None]
    /\ overrode_parameters = [p \in DOMAIN kinds |-> <<>>]
    /\ params = [p \in DOMAIN kinds |-> <<>>]
    /\ log_states = [p \in DOMAIN kinds |-> <<>>]

\* concurrent callers of CounterTable.update_item on a fresh table
InitTable ==
    /\ InitCommon([p \in 1..NumCallers |-> "table"])
    /\ metric_data = NoMetric
    /\ stack = NoStack

NextTable ==
    \/ \E p \in Procs, d \in Deltas : TableCall(p, d)
    \/ \E p \in Procs : DynamoUpdateItem(p)
    \/ \E p \in Procs : TableReturn(p)

SpecTable == InitTable /\ [][NextTable]_vars

\* one log-batch invocation next to one other invocation that records a join
InitLogs ==
    /\ InitCommon(<<"logs", "table">>)
    /\ metric_data = NoMetric
    /\ stack = NoStack

NextLogs ==
    \/ \E p \in Procs :
          /\ kind[p] = "logs" /\ pc[p] = "idle"
          /\ \E flat \in SeqsUpTo(LogMessages, MaxBatchEvents) :
                \E cut \in Cuts(Len(flat)) : LogsInvoke(p, kinesis_event(Deal(flat, cut)))
    \/ \E p \in Procs : LogsAnalyze(p)
    \/ \E p \in Procs : LogsCountNext(p)
    \/ \E p \in Procs : LogsCountReceive(p)
    \/ \E p \in Procs : LogsCountReturn(p)
    \/ \E p \in Procs : DynamoUpdateItem(p)
    \/ \E p \in Procs : TableCall(p, 1)
    \/ \E p \in Procs : TableReturn(p)

SpecLogs == InitLogs /\ [][NextLogs]_vars

\* one log-batch invocation given a single message of any shape
InitAnalyze ==
    /\ InitCommon(<<"logs">>)
    /\ metric_data = NoMetric
    /\ stack = NoStack

NextAnalyze ==
    \/ \E p \in Procs :
          /\ kind[p] = "logs" /\ pc[p] = "idle"
          /\ \E message \in SeqsUpTo(Tokens, MaxTokens) :
                LogsInvoke(p, kinesis_event(<<<<message>>>>))
    \/ \E p \in Procs : LogsAnalyze(p)
    \/ \E p \in Procs : LogsCountNext(p)
    \/ \E p \in Procs : LogsCountReceive(p)
    \/ \E p \in Procs : LogsCountReturn(p)
    \/ \E p \in Procs : DynamoUpdateItem(p)

SpecAnalyze == InitAnalyze /\ [][NextAnalyze]_vars

\* two alarm notifications handled side by side
InitAlarm ==
    /\ \E kinds \in [1..2 -> AlarmKinds] : InitCommon(kinds)
    /\ metric_data \in IF \E p \in Procs : kind[p] = "alarm_cloudwatch_logs"
                       THEN MetricStates ELSE {NoMetric}
    /\ stack = NoStack

NextAlarm ==
    \/ \E p \in Procs :
          /\ pc[p] = "idle"
          /\ \E n \in AlarmNames, r \in ReasonTexts : AlarmInvoke(p, alarm_event(n, r))
    \/ \E p \in Procs : AlarmCount(p)
    \/ \E p \in Procs : DynamoUpdateItem(p)
    \/ \E p \in Procs : AlarmReceive(p)
    \/ \E p \in Procs : AlarmSeriesCount(p)

SpecAlarm == InitAlarm /\ [][NextAlarm]_vars

\* two switch requests next to one writer of the counter
InitSwitch ==
    /\ InitCommon(<<"switch", "switch", "table">>)
    /\ metric_data = NoMetric
    /\ stack \in Stacks

NextSwitch ==
    \/ \E p \in Procs :
          /\ kind[p] = "switch" /\ pc[p] = "idle"
          /\ \E t \in TableNames, o \in OverrideMaps : SwitchInvoke(p, t, o)
    \/ \E p \in Procs : SwitchGuard(p)
    \/ \E p \in Procs : SwitchDescribe(p)
    \/ \E p \in Procs : SwitchUpdate(p)
    \/ \E p \in Procs, d \in GuardDeltas : TableCall(p, d)
    \/ \E p \in Procs : DynamoUpdateItem(p)
    \/ \E p \in Procs : TableReturn(p)

SpecSwitch == InitSwitch /\ [][NextSwitch]_vars

\* one Lambda invocation through ClientsCounter next to a writer of the counter
InitCounter ==
    /\ \E k \in CommandKinds : InitCommon(<<k, "table">>)
    /\ metric_data \in IF kind[1] = "alarm_cloudwatch_logs"
                       THEN MetricStates ELSE {NoMetric}
    /\ stack = NoStack

NextCounter ==
    \/ \E p \in Procs :
          /\ kind[p] \in CommandKinds /\ pc[p] = "idle"
          /\ \E ev \in CounterEvents : CounterInvoke(p, ev)
    \/ \E p \in Procs : CounterCount(p)
    \/ \E p \in Procs : LogsAnalyze(p)
    \/ \E p \in Procs : LogsCountNext(p)
    \/ \E p \in Procs : LogsCountReceive(p)
    \/ \E p \in Procs : LogsCountReturn(p)
    \/ \E p \in Procs : AlarmCount(p)
    \/ \E p \in Procs : AlarmReceive(p)
    \/ \E p \in Procs : AlarmSeriesCount(p)
    \/ \E p \in Procs : DynamoUpdateItem(p)
    \/ \E p \in Procs : TableCall(p, 1)
    \/ \E p \in Procs : TableReturn(p)

SpecCounter == InitCounter /\ [][NextCounter]_vars

\* switchers being constructed
InitConstruct ==
    /\ InitCommon(<<"constructor", "constructor">>)
    /\ metric_data = NoMetric
    /\ stack \in {NoStack, [exists |-> TRUE, Parameters |-> <<>>]}

NextConstruct ==
    \E p \in Procs :
        /\ kind[p] = "constructor" /\ pc[p] = "idle"
        /\ \E n \in StackNames, t \in TableNames, k \in PrimaryKeys :
              SwitchConstruct(p, n, t, k)

SpecConstruct == InitConstruct /\ [][NextConstruct]_vars

\* ------------------------------------------------------------------ claims
HistoryDeltas == [i \in 1..Len(history) |-> history[i].delta]

HasEntry(p) == \E i \in 1..Len(history) : history[i].proc = p

LastEntry(p) ==
    history[CHOOSE i \in 1..Len(history) :
        /\ history[i].proc = p
        /\ \A j \in (i + 1)..Len(history) : history[j].proc # p]

Completed(p) == pc[p] = "done" /\ outcome[p] = "returned"

\* C1: after deltas d1..dn were applied to a row that did not exist before,
\* the persisted counter equals d1+...+dn; there is no floor, so it is
\* negative whenever the sum is negative.
C1_ValueIsSumOfDeltas ==
    /\ (history = <<>>) => ~item.exists
    /\ (history # <<>>) =>
          /\ item.exists
          /\ CounterValue(item) = SumSeq(HistoryDeltas)
          /\ (SumSeq(HistoryDeltas) < 0) => (CounterValue(item) < 0)

C1_Witness ==
    /\ Len(history) >= 3
    /\ SumSeq(HistoryDeltas) < 0
    /\ \E i \in 1..Len(history) : history[i].delta > 0
    /\ \A p \in Procs : ~req[p].sent /\ ~resp[p].sent

\* C2: every update_item(delta) returns the previous value + delta, the
\* previous value being 0 when the row did not exist (the call creates it).
C2_ReturnsNewTotal ==
    \A p \in Procs :
        (kind[p] = "table" /\ Completed(p)) =>
            /\ HasEntry(p)
            /\ LET e == LastEntry(p)
                   previous == IF e.prev.exists THEN py_int(e.prev.N).value ELSE 0
               IN /\ ret[p] = previous + e.delta
                  /\ e.new.exists

C2_Witness ==
    \E p, q \in Procs :
        /\ p # q
        /\ Completed(p) /\ Completed(q)
        /\ HasEntry(p) /\ HasEntry(q)
        /\ ~LastEntry(p).prev.exists /\ LastEntry(p).delta < 0
        /\ LastEntry(q).prev.exists /\ LastEntry(q).delta # 0

\* C3: concurrent update_item calls on the same key lose no delta under any
\* interleaving: every served add starts from the value the previous one
\* left, the persisted value is the sum of all served deltas, and the call
\* the store serialized last returns that sum.
C3_NoLostDelta ==
    /\ \A i \in 1..Len(history) :
          /\ history[i].prev = (IF i = 1 THEN NoItem ELSE history[i - 1].new)
          /\ CounterValue(history[i].new)
                = CounterValue(history[i].prev) + history[i].delta
    /\ (history # <<>>) =>
          LET last == history[Len(history)]
          IN /\ CounterValue(item) = SumSeq(HistoryDeltas)
             /\ Completed(last.proc) => ret[last.proc] = SumSeq(HistoryDeltas)

\* three overlapping adds 3, -2, 4 served out of caller order: the one served
\* last has returned 5 while the two served before it have not returned yet
C3_Witness ==
    /\ Len(history) >= 3
    /\ history[1].proc > history[2].proc
    /\ {history[i].delta : i \in 1..3} = {3, 0 - 2, 4}
    /\ resp[history[1].proc].sent /\ resp[history[2].proc].sent
    /\ Completed(history[3].proc)
    /\ ret[history[3].proc] = 5

\* ------------------------------------------------- claims on the log command
\* the lines of a batch in input order: all events of record 1, then record 2
PayloadOf(record) == record.kinesis.data[2][2][2]

RECURSIVE LinesFrom(_, _)
LinesFrom(ev, i) ==
    IF i > Len(ev.Records) THEN <<>>
    ELSE LET logEvents == PayloadOf(ev.Records[i]).logEvents
         IN [j \in 1..Len(logEvents) |-> logEvents[j].message] \o LinesFrom(ev, i + 1)

BatchLines(ev) == LinesFrom(ev, 1)

HasAtom(m, a) == \E i \in 1..Len(m) : m[i] = a

IsJoinedLine(m) == HasAtom(m, "joined")

IsLeftLine(m) == ~HasAtom(m, "joined") /\ HasAtom(m, "left")

IsControlLine(m) ==
    /\ ~HasAtom(m, "joined") /\ ~HasAtom(m, "left")
    /\ Len(m) >= 3 /\ m[1] = "CWL" /\ m[2] = "CONTROL" /\ m[3] = "MESSAGE"

IsUnknownLine(m) == ~IsJoinedLine(m) /\ ~IsLeftLine(m) /\ ~IsControlLine(m)

IsCountedLine(m) == IsJoinedLine(m) \/ IsLeftLine(m)

CountedLines(ev) == SelectSeq(BatchLines(ev), IsCountedLine)

ExpectedDeltas(ev) ==
    LET counted == CountedLines(ev)
    IN [i \in 1..Len(counted) |-> IF IsJoinedLine(counted[i]) THEN 1 ELSE 0 - 1]

HasUnknownLine(ev) ==
    LET lines == BatchLines(ev)
    IN \E i \in 1..Len(lines) : IsUnknownLine(lines[i])

Started(p) == kind[p] = "logs" /\ pc[p] # "idle"

\* no other invocation's add was served since p began
NoInterference(p) == \A i \in (mark[p] + 1)..Len(history) : history[i].proc = p

\* the counter value when p began
BaseValue(p) == IF mark[p] = 0 THEN 0 ELSE CounterValue(history[mark[p]].new)

NumServed(p) == Cardinality({i \in 1..Len(history) : history[i].proc = p})

NumCalls(p) == NumServed(p) + (IF req[p].sent THEN 1 ELSE 0)

\* C4: for a batch of Joined/Left/ControlMessage lines and no other
\* invocation mutating the counter meanwhile, count() returns the running
\* totals: element i is the initial value plus the deltas of the first i
\* counted lines, in input order across the records.
C4_RunningTotals ==
    \A p \in Procs :
        (Started(p) /\ ~HasUnknownLine(event[p]) /\ NoInterference(p)) =>
            LET expected == ExpectedDeltas(event[p])
            IN /\ Len(results[p]) <= Len(expected)
               /\ \A i \in 1..Len(results[p]) :
                     results[p][i] = BaseValue(p) + SumSeq(SubSeq(expected, 1, i))
               /\ (pc[p] = "done") =>
                     /\ outcome[p] = "returned"
                     /\ Len(results[p]) = Len(expected)

\* [joined, joined] and [left] in two records on an empty counter: [1, 2, 1]
C4_Witness ==
    \E p \in Procs :
        /\ Started(p) /\ pc[p] = "done" /\ outcome[p] = "returned"
        /\ mark[p] = 0 /\ NoInterference(p)
        /\ Len(event[p].Records) >= 2
        /\ Len(PayloadOf(event[p].Records[1]).logEvents) = 2
        /\ results[p] = <<1, 2, 1>>

\* C5: a ControlMessage line causes no store call and no result element: the
\* number of update_item calls and the length of the returned list equal the
\* number of Joined plus Left lines, and a batch of control messages only
\* returns the empty list without touching the counter.
C5_ControlMessageSkipped ==
    \A p \in Procs :
        (Started(p) /\ ~HasUnknownLine(event[p])) =>
            LET counted == Len(CountedLines(event[p]))
            IN /\ NumCalls(p) <= counted
               /\ (pc[p] = "done") =>
                     /\ outcome[p] = "returned"
                     /\ NumCalls(p) = counted
                     /\ Len(results[p]) = counted
               /\ (counted = 0) =>
                     /\ results[p] = <<>>
                     /\ NumCalls(p) = 0
                     /\ NoInterference(p) => CounterValue(item) = BaseValue(p)

C5_Witness ==
    \E p \in Procs :
        /\ Started(p) /\ pc[p] = "done" /\ outcome[p] = "returned"
        /\ LET lines == BatchLines(event[p])
           IN /\ Len(lines) >= 3
              /\ IsCountedLine(lines[1])
              /\ IsControlLine(lines[2])
              /\ IsCountedLine(lines[3])
        /\ Len(results[p]) = 2
        /\ NumServed(p) = 2

\* C6: a message is classified by strict priority: contains "joined" ->
\* Joined; else contains "left" -> Left; else starts with "CWL CONTROL
\* MESSAGE" -> ControlMessage; else UnknownLogState is raised.  A control
\* message that contains "joined" or "left" is therefore counted.
C6_ClassificationPriority ==
    \A p \in Procs :
        (Started(p) /\ pc[p] # "analyze" /\ Len(BatchLines(event[p])) = 1) =>
            LET m == BatchLines(event[p])[1]
                unconsumed == pc[p] = "loop" /\ states[p] # <<>>
                served == [i \in 1..Len(history) |-> history[i].delta]
            IN /\ IsJoinedLine(m) =>
                    /\ outcome[p] # UnknownLogState
                    /\ unconsumed => states[p] = <<JOINED>>
                    /\ (pc[p] = "done") => served = <<1>>
               /\ IsLeftLine(m) =>
                    /\ outcome[p] # UnknownLogState
                    /\ unconsumed => states[p] = <<LEFT>>
                    /\ (pc[p] = "done") => served = <<0 - 1>>
               /\ IsControlLine(m) =>
                    /\ outcome[p] # UnknownLogState
                    /\ unconsumed => states[p] = <<INITIAL_ACTIVATION_OF_KINESIS_DATA_STREAM>>
                    /\ (pc[p] = "done") => served = <<>>
               /\ IsUnknownLine(m) =>
                    /\ pc[p] = "done"
                    /\ outcome[p] = UnknownLogState
                    /\ served = <<>>

\* "CWL CONTROL MESSAGE" followed by both "left" and "joined": counted, +1
C6_Witness ==
    \E p \in Procs :
        /\ Started(p) /\ pc[p] = "done" /\ outcome[p] = "returned"
        /\ LET m == BatchLines(event[p])[1]
           IN /\ Len(m) >= 4
              /\ m[1] = "CWL" /\ m[2] = "CONTROL" /\ m[3] = "MESSAGE"
              /\ HasAtom(m, "joined")
        /\ results[p] = <<1>>

\* C7: an unrecognised line anywhere in the batch makes count() fail with
\* UnknownLogState; no result list is emitted, not even the totals of the
\* recognised lines before it.
C7_UnknownAbortsBatch ==
    \A p \in Procs :
        (Started(p) /\ HasUnknownLine(event[p])) =>
            /\ results[p] = <<>>
            /\ logged[p] = <<>>
            /\ outcome[p] # "returned"
            /\ pc[p] \in {"analyze", "done"}
            /\ (pc[p] = "done") => outcome[p] = UnknownLogState

C7_Witness ==
    \E p \in Procs :
        /\ Started(p) /\ pc[p] = "done" /\ outcome[p] = UnknownLogState
        /\ LET lines == BatchLines(event[p])
           IN /\ Len(lines) >= 3
              /\ IsJoinedLine(lines[1])
              /\ IsLeftLine(lines[2])
              /\ IsUnknownLine(lines[Len(lines)])
        /\ results[p] = <<>>

\* C8 as stated: when UnknownLogState is raised after Joined/Left lines, the
\* deltas of those preceding lines are already applied to the counter.
CountedBeforeUnknown(ev) ==
    LET lines == BatchLines(ev)
        first == CHOOSE i \in 1..Len(lines) :
                    /\ IsUnknownLine(lines[i])
                    /\ \A j \in 1..(i - 1) : ~IsUnknownLine(lines[j])
    IN SelectSeq(SubSeq(lines, 1, first - 1), IsCountedLine)

C8_PartialApplication ==
    \A p \in Procs :
        (Started(p) /\ outcome[p] = UnknownLogState) =>
            NumServed(p) = Len(CountedBeforeUnknown(event[p]))

\* C8 amended: the whole batch is classified before the first store call, so
\* when UnknownLogState is raised no delta of the batch has been applied.
C8_NoPartialApplication ==
    \A p \in Procs :
        (Started(p) /\ HasUnknownLine(event[p])) =>
            /\ NumCalls(p) = 0
            /\ ~resp[p].sent
            /\ NoInterference(p) => CounterValue(item) = BaseValue(p)

C8_Witness ==
    \E p \in Procs :
        /\ Started(p) /\ pc[p] = "done" /\ outcome[p] = UnknownLogState
        /\ Len(event[p].Records) >= 2
        /\ Len(CountedBeforeUnknown(event[p])) >= 2
        /\ NumServed(p) = 0
        /\ NoInterference(p)
        /\ CounterValue(item) = BaseValue(p)

\* the notification an alarm invocation was constructed with
AlarmMessage(p) == json_loads(event[p].Records[1].Sns.Message)

AlarmStarted(p) ==
    kind[p] \in {"alarm_dynamodb", "alarm_cloudwatch_logs"} /\ pc[p] # "idle"

\* m is x with its fraction dropped
TruncatesTo(x, m) ==
    IF x.num >= 0
    THEN m * x.den <= x.num /\ x.num < (m + 1) * x.den
    ELSE (m - 1) * x.den < x.num /\ x.num <= m * x.den

\* C9: the alarm-to-store command, with the counter at c when its add is
\* served and a datapoint that truncates to m, issues exactly one add, of +m
\* for the joined alarm and of -m for the left alarm, and returns c+m
\* (joined_count m, left_count 0) or c-m (joined_count 0, left_count m).
C9_AlarmAppliesDatapoint ==
    \A p \in Procs :
        (kind[p] = "alarm_dynamodb" /\ pc[p] \in {"wait", "done"}
           /\ AlarmMessage(p).AlarmName \in {joined_alarm_name, left_alarm_name}
           /\ extract_datapoint(AlarmMessage(p).NewStateReason).raised = "none") =>
        \E m \in (0 - 12)..12 :
            LET joined == AlarmMessage(p).AlarmName = joined_alarm_name
                delta == IF joined THEN m ELSE 0 - m
            IN /\ TruncatesTo(extract_datapoint(AlarmMessage(p).NewStateReason).value, m)
               /\ NumCalls(p) = 1
               /\ req[p].sent => arg[p] = delta
               /\ HasEntry(p) => LastEntry(p).delta = delta
               /\ pc[p] = "done" =>
                    /\ outcome[p] = "returned"
                    /\ HasEntry(p)
                    /\ ret[p] = CounterValue(LastEntry(p).prev) + delta
                    /\ CounterValue(LastEntry(p).new) = ret[p]
                    /\ logged[p] = <<[connected_count |-> ret[p],
                                      joined_count |-> IF joined THEN m ELSE 0,
                                      left_count |-> IF joined THEN 0 ELSE m]>>

\* the joined alarm with datapoint 3.0 on a counter at 2 returned 5
C9_Witness ==
    \E p \in Procs :
        /\ kind[p] = "alarm_dynamodb" /\ Completed(p)
        /\ AlarmMessage(p).AlarmName = joined_alarm_name
        /\ re_findall(AlarmMessage(p).NewStateReason) = << <<"3", ".", "0">> >>
        /\ CounterValue(LastEntry(p).prev) = 2
        /\ ret[p] = 5
        /\ logged[p] = <<[connected_count |-> 5, joined_count |-> 3, left_count |-> 0]>>

IsUnknownAlarm(p) ==
    /\ AlarmStarted(p)
    /\ AlarmMessage(p).AlarmName # joined_alarm_name
    /\ AlarmMessage(p).AlarmName # left_alarm_name

\* what precedes the test of the alarm name in count() went through
AlarmInputsRead(p) ==
    /\ extract_datapoint(AlarmMessage(p).NewStateReason).raised = "none"
    /\ kind[p] = "alarm_cloudwatch_logs" => get_previous_metric(metric_data).raised = "none"

\* C10 as stated: whenever AlarmName is neither configured alarm, count()
\* fails with AlarmNotFoundError, issues no add and leaves the counter alone.
C10_UnknownAlarmNotFound ==
    \A p \in Procs :
        (IsUnknownAlarm(p) /\ pc[p] = "done") =>
            /\ outcome[p] = AlarmNotFoundError
            /\ NumCalls(p) = 0
            /\ NoInterference(p) => CounterValue(item) = BaseValue(p)

\* C10: when AlarmName is neither configured alarm, count() fails, issues no
\* add and leaves the counter alone; the failure is AlarmNotFoundError
\* whenever the datapoint (and, for the alarm-to-series command, the previous
\* metric) was read without error.
C10_UnknownAlarmFails ==
    \A p \in Procs :
        IsUnknownAlarm(p) =>
            /\ NumCalls(p) = 0
            /\ ~resp[p].sent
            /\ logged[p] = <<>>
            /\ snapshot[p] = <<>>
            /\ NoInterference(p) => CounterValue(item) = BaseValue(p)
            /\ pc[p] = "done" =>
                 /\ outcome[p] \in {AlarmNotFoundError, "IndexError", "ValueError"}
                 /\ AlarmInputsRead(p) => outcome[p] = AlarmNotFoundError

\* both commands raised AlarmNotFoundError for an unknown alarm name, on a
\* counter that another notification had set to 3 before
C10_Witness ==
    /\ \E p \in Procs :
          /\ kind[p] = "alarm_dynamodb" /\ IsUnknownAlarm(p)
          /\ pc[p] = "done" /\ outcome[p] = AlarmNotFoundError
          /\ mark[p] > 0 /\ BaseValue(p) = 3 /\ CounterValue(item) = 3
    /\ \E q \in Procs :
          /\ kind[q] = "alarm_dynamodb" /\ Completed(q) /\ ret[q] = 3

\* ---------------------------------------------------- claims on the switcher
\* the calls of an invocation with the given name
CallsOf(p, name) == SelectSeq(trace[p], LAMBDA c : c.op = name)

IsSwitch(p) == kind[p] = "switch" /\ pc[p] # "idle"

\* the guard read the store and found this count
GuardRead(p) == CallsOf(p, "get_item") # <<>>

GuardCount(p) == CounterValue(CallsOf(p, "get_item")[1].row)

\* what describe_stacks showed the invocation
Described(p) == CallsOf(p, "describe_stacks")[1].found

\* C11: when the guard reads a connected count above 0 the switch fails
\* with UserStillConnectedError and does nothing else: no describe_stacks, no
\* merge, no update_stack.
C11_GuardRefuses ==
    \A p \in Procs :
        (IsSwitch(p) /\ GuardRead(p) /\ GuardCount(p) > 0) =>
            /\ pc[p] = "done"
            /\ outcome[p] = UserStillConnectedError
            /\ Len(trace[p]) = 1
            /\ params[p] = <<>>

\* refused on a count of 3 while the stack exists and the override differs
C11_Witness ==
    \E p \in Procs :
        /\ IsSwitch(p) /\ GuardRead(p) /\ GuardCount(p) = 3
        /\ outcome[p] = UserStillConnectedError
        /\ stack = [exists |-> TRUE,
                    Parameters |-> <<[ParameterKey |-> "A", ParameterValue |-> "1"]>>]
        /\ overrode_parameters[p] = [k \in {"A"} |-> "9"]

\* C12: the guard never refuses when no table is configured (the store is
\* then not read), when the row does not exist, or when the stored count is
\* 0 or negative.
C12_GuardPermits ==
    \A p \in Procs :
        IsSwitch(p) =>
            /\ table_name[p] = None => ~GuardRead(p)
            /\ (pc[p] # "guard" /\ table_name[p] # None) => Len(CallsOf(p, "get_item")) = 1
            /\ (pc[p] # "guard" /\ (table_name[p] = None \/ GuardCount(p) <= 0)) =>
                 /\ outcome[p] # UserStillConnectedError
                 /\ CallsOf(p, "describe_stacks") # <<>>
                      \/ pc[p] = "describe"

\* one switch passed the guard without a table, the other on a count of -2
C12_Witness ==
    \E p, q \in Procs :
        /\ IsSwitch(p) /\ table_name[p] = None /\ pc[p] = "done"
        /\ outcome[p] = "returned" /\ trace[p][1].op = "describe_stacks"
        /\ IsSwitch(q) /\ GuardRead(q) /\ GuardCount(q) = 0 - 2
        /\ CallsOf(q, "get_item")[1].row.exists
        /\ CallsOf(q, "describe_stacks") # <<>>

Merged(p) == IsSwitch(p) /\ pc[p] = "done" /\ CallsOf(p, "describe_stacks") # <<>>
                /\ Described(p).exists

\* C13: for every current parameter (K, V): when the overrides name K with a
\* value other than V the emitted entry carries that value as ParameterValue;
\* otherwise it carries UsePreviousValue = true and no ParameterValue.
C13_MergeRule ==
    \A p \in Procs :
        Merged(p) =>
            LET cur == Described(p).Parameters
                ov == overrode_parameters[p]
            IN /\ Len(params[p]) = Len(cur)
               /\ \A i \in 1..Len(cur) :
                    LET K == cur[i].ParameterKey
                        V == cur[i].ParameterValue
                    IN /\ params[p][i].ParameterKey = K
                       /\ IF K \in DOMAIN ov /\ ov[K] # V
                          THEN /\ "ParameterValue" \in DOMAIN params[p][i]
                               /\ params[p][i].ParameterValue = ov[K]
                          ELSE /\ "ParameterValue" \notin DOMAIN params[p][i]
                               /\ "UsePreviousValue" \in DOMAIN params[p][i]
                               /\ params[p][i].UsePreviousValue = TRUE

\* current {A: 1, B: 2} with overrides {A: 9}: the update is issued with
\* [A = 9, B reused]
C13_Witness ==
    \E p \in Procs :
        /\ Merged(p)
        /\ Described(p).Parameters = <<[ParameterKey |-> "A", ParameterValue |-> "1"],
                                       [ParameterKey |-> "B", ParameterValue |-> "2"]>>
        /\ overrode_parameters[p] = [k \in {"A"} |-> "9"]
        /\ params[p] = <<[ParameterKey |-> "A", ParameterValue |-> "9"],
                         [ParameterKey |-> "B", UsePreviousValue |-> TRUE]>>
        /\ CallsOf(p, "update_stack") = <<[op |-> "update_stack", Parameters |-> params[p]]>>
        /\ outcome[p] = "returned"
        /\ stack.Parameters = <<[ParameterKey |-> "A", ParameterValue |-> "9"],
                                [ParameterKey |-> "B", ParameterValue |-> "2"]>>

HasValue(param) == "ParameterValue" \in DOMAIN param

UsesPrevious(param) == dict_get(param, "UsePreviousValue", FALSE)

\* C14: every entry of the merged list has exactly one of a ParameterValue
\* field and UsePreviousValue = true, also when the current entry carried a
\* UsePreviousValue field of its own.
C14_ExactlyOne ==
    \A p \in Procs :
        Merged(p) =>
            \A i \in 1..Len(params[p]) : HasValue(params[p][i]) # UsesPrevious(params[p][i])

\* C15: when every emitted parameter reuses the previous value the switch
\* fails with UnnecessaryToUpdateStackError and update_stack is not called;
\* when an emitted parameter carries a new value update_stack is called
\* exactly once and that error is not raised.
C15_NoOpOrUpdate ==
    \A p \in Procs :
        Merged(p) =>
            /\ (\A i \in 1..Len(params[p]) : UsesPrevious(params[p][i])) =>
                 /\ outcome[p] = UnnecessaryToUpdateStackError
                 /\ CallsOf(p, "update_stack") = <<>>
            /\ (\E i \in 1..Len(params[p]) : HasValue(params[p][i])) =>
                 /\ outcome[p] # UnnecessaryToUpdateStackError
                 /\ Len(CallsOf(p, "update_stack")) = 1

\* C16: when describe_stacks finds no stack the switch fails with
\* NotFoundStackError, with no merge and no update_stack, whatever the
\* overrides are.
C16_StackNotFound ==
    \A p \in Procs :
        (IsSwitch(p) /\ CallsOf(p, "describe_stacks") # <<>> /\ ~Described(p).exists) =>
            /\ pc[p] = "done"
            /\ outcome[p] = NotFoundStackError
            /\ params[p] = <<>>
            /\ CallsOf(p, "update_stack") = <<>>
            /\ stack = NoStack

\* not found with an empty override map and with a non-empty one
C16_Witness ==
    \E p, q \in Procs :
        /\ IsSwitch(p) /\ IsSwitch(q)
        /\ outcome[p] = NotFoundStackError /\ outcome[q] = NotFoundStackError
        /\ overrode_parameters[p] = <<>>
        /\ DOMAIN overrode_parameters[q] = {"A", "B"}

\* ---------------------------------------------- claims on the entry point
\* the invocation went through check_event_source
Checked(p) == kind[p] \in CommandKinds /\ CallsOf(p, "check_event_source") # <<>>

CheckResult(p) == CallsOf(p, "check_event_source")[1]

\* the fields check_event_source of the command looks for in the first record
HasSourceFields(command, record) ==
    IF command = "logs" THEN "kinesis" \in DOMAIN record
    ELSE "Sns" \in DOMAIN record /\ "Message" \in DOMAIN record.Sns

SourceContent(command, record) ==
    IF command = "logs" THEN record.kinesis ELSE record.Sns.Message

\* null, {}, a first record without the expected fields, or, for the alarm
\* commands, an empty Records list
IsMalformedEvent(command, ev) ==
    \/ ev.tag = "None"
    \/ "Records" \notin DOMAIN ev
    \/ /\ "Records" \in DOMAIN ev
       /\ \/ ev.Records = <<>> /\ command # "logs"
          \/ ev.Records # <<>> /\ ~HasSourceFields(command, ev.Records[1])

IsWellShapedEvent(command, ev) ==
    /\ ev.tag = "dict" /\ "Records" \in DOMAIN ev /\ ev.Records # <<>>
    /\ HasSourceFields(command, ev.Records[1])
    /\ SourceContent(command, ev.Records[1]) # <<>>

\* C17: check_event_source of every command fails with UnknownEventSource
\* for a null or malformed event (None, {}, a first record without the
\* expected field, an empty Records list for the alarm commands), never
\* with another error and never by returning a falsy value; it returns a
\* truthy value for a well-shaped non-empty event.
C17_UnknownEventSource ==
    \A p \in Procs :
        Checked(p) =>
            /\ CheckResult(p).raised \in {"none", UnknownEventSource}
            /\ IsMalformedEvent(kind[p], event[p]) => CheckResult(p).raised = UnknownEventSource
            /\ IsWellShapedEvent(kind[p], event[p]) =>
                 CheckResult(p).raised = "none" /\ CheckResult(p).truthy

CountAllowed(p) == CheckResult(p).raised = "none" /\ CheckResult(p).truthy

\* C18: ClientsCounter.count calls check_event_source exactly once, and then
\* the command's count() exactly once if and only if the check returned a
\* truthy value; after a falsy value or an error count() is never called and
\* the counter is not mutated.
C18_CheckThenCount ==
    \A p \in Procs :
        kind[p] \in CommandKinds =>
            /\ pc[p] \in {"idle", "check"} => trace[p] = <<>>
            /\ pc[p] \notin {"idle", "check"} =>
                 /\ Len(CallsOf(p, "check_event_source")) = 1
                 /\ trace[p][1].op = "check_event_source"
                 /\ Len(CallsOf(p, "count")) = IF CountAllowed(p) THEN 1 ELSE 0
                 /\ ~CountAllowed(p) =>
                      /\ pc[p] = "done"
                      /\ NumCalls(p) = 0
                      /\ ~resp[p].sent
                      /\ results[p] = <<>> /\ logged[p] = <<>> /\ snapshot[p] = <<>>
                      /\ NoInterference(p) => CounterValue(item) = BaseValue(p)

\* a log batch passed the check, count() ran once and added to the counter
C18_Witness ==
    \E p \in Procs :
        /\ kind[p] = "logs" /\ pc[p] = "done" /\ outcome[p] = "returned"
        /\ trace[p] = <<[op |-> "check_event_source", raised |-> "none", truthy |-> TRUE],
                        [op |-> "count", raised |-> "none", truthy |-> TRUE]>>
        /\ Len(results[p]) = 3
        /\ NumServed(p) = 3

\* ------------------------------------------------- claims on the grouping
\* the state the if/elif chain gives a message, read off the message
StateOfLine(m) ==
    IF IsJoinedLine(m) THEN JOINED
    ELSE IF IsLeftLine(m) THEN LEFT
    ELSE INITIAL_ACTIVATION_OF_KINESIS_DATA_STREAM

Analyzed(p) ==
    /\ Started(p) /\ pc[p] # "analyze"
    /\ ~\E i \in 1..Len(BatchLines(event[p])) : IsUnknownLine(BatchLines(event[p])[i])

\* C19: analyze_log_text returns one inner list per record, in record order,
\* each holding one state per log event of that record, in event order;
\* nothing is dropped, merged or reordered, and a control message keeps its
\* position.
C19_GroupingPreserved ==
    \A p \in Procs :
        Analyzed(p) =>
            /\ Len(log_states[p]) = Len(event[p].Records)
            /\ \A i \in 1..Len(event[p].Records) :
                 LET logEvents == PayloadOf(event[p].Records[i]).logEvents
                 IN /\ Len(log_states[p][i]) = Len(logEvents)
                    /\ \A j \in 1..Len(logEvents) :
                         log_states[p][i][j] = StateOfLine(logEvents[j].message)

\* records [joined, control] and [left] give [[JOINED, control], [LEFT]]
C19_Witness ==
    \E p \in Procs :
        /\ Analyzed(p)
        /\ Len(event[p].Records) = 2
        /\ log_states[p] = << <<JOINED, INITIAL_ACTIVATION_OF_KINESIS_DATA_STREAM>>, <<LEFT>> >>

\* ------------------------------------------- claims on the series command
SeriesReturned(p) ==
    kind[p] = "alarm_cloudwatch_logs" /\ pc[p] = "done" /\ outcome[p] = "returned"

\* C20: the alarm-to-series command mutates no store and returns a snapshot:
\* previous_count is the truncated last value of the metric series, or 0
\* without the metric; connected_count is previous_count + m for the joined
\* alarm (joined_count m, left_count 0) and previous_count - m for the left
\* alarm (joined_count 0, left_count m); always connected_count =
\* previous_count + joined_count - left_count.
C20_SeriesSnapshot ==
    \A p \in Procs :
        kind[p] = "alarm_cloudwatch_logs" =>
            /\ NumCalls(p) = 0 /\ ~HasEntry(p) /\ ~resp[p].sent
            /\ ~SeriesReturned(p) => snapshot[p] = <<>>
            /\ SeriesReturned(p) =>
                 /\ Len(snapshot[p]) = 1
                 /\ AlarmMessage(p).AlarmName \in {joined_alarm_name, left_alarm_name}
                 /\ \E m \in (0 - 12)..12 :
                      LET s == snapshot[p][1]
                          joined == AlarmMessage(p).AlarmName = joined_alarm_name
                      IN /\ TruncatesTo(extract_datapoint(AlarmMessage(p).NewStateReason).value, m)
                         /\ IF metric_data.exists
                            THEN TruncatesTo(metric_data.Values[Len(metric_data.Values)],
                                             s.previous_count)
                            ELSE s.previous_count = 0
                         /\ s.joined_count = IF joined THEN m ELSE 0
                         /\ s.left_count = IF joined THEN 0 ELSE m
                         /\ s.connected_count = IF joined THEN s.previous_count + m
                                                ELSE s.previous_count - m
                         /\ s.connected_count = s.previous_count + s.joined_count - s.left_count

\* the left alarm with datapoint 2.9 on a series ending in 2.5: 2 - 2 = 0
C20_Witness ==
    \E p \in Procs :
        /\ SeriesReturned(p)
        /\ metric_data.exists /\ Len(metric_data.Values) = 2
        /\ AlarmMessage(p).AlarmName = left_alarm_name
        /\ re_findall(AlarmMessage(p).NewStateReason) = << <<"2", ".", "9">> >>
        /\ snapshot[p] = <<[previous_count |-> 2, connected_count |-> 0,
                            joined_count |-> 0, left_count |-> 2]>>

\* ------------------------------------------------ claims on the datapoint
\* the datapoint text the notification of the invocation carries
DatapointText(p) == re_findall(AlarmMessage(p).NewStateReason)[1]

\* the delta of the one add an alarm-to-store invocation issued
IssuedDelta(p) == IF req[p].sent THEN arg[p] ELSE LastEntry(p).delta

\* the magnitude the invocation used, read off the add it issued
UsedMagnitude(p) ==
    IF AlarmMessage(p).AlarmName = joined_alarm_name THEN IssuedDelta(p)
    ELSE 0 - IssuedDelta(p)

IssuedAdd(p) ==
    /\ kind[p] = "alarm_dynamodb" /\ pc[p] \in {"wait", "done"}
    /\ NumCalls(p) = 1
    /\ re_findall(AlarmMessage(p).NewStateReason) # <<>>

\* C21: the magnitude m is the datapoint truncated toward zero: 2.5 and 2.9
\* give 2, 0.9 gives 0 (an add of 0 is issued), -1.5 gives -1.
C21_TruncatedTowardZero ==
    \A p \in Procs :
        /\ IssuedAdd(p) =>
             /\ DatapointText(p) = <<"2", ".", "5">> => UsedMagnitude(p) = 2
             /\ DatapointText(p) = <<"2", ".", "9">> => UsedMagnitude(p) = 2
             /\ DatapointText(p) = <<"0", ".", "9">> => UsedMagnitude(p) = 0
             /\ DatapointText(p) = <<"-", "1", ".", "5">> => UsedMagnitude(p) = 0 - 1
             /\ DatapointText(p) = <<"3", ".", "0">> => UsedMagnitude(p) = 3
        /\ (kind[p] = "alarm_dynamodb" /\ pc[p] \in {"wait", "done"}
              /\ AlarmMessage(p).AlarmName \in {joined_alarm_name, left_alarm_name}
              /\ re_findall(AlarmMessage(p).NewStateReason) = << <<"0", ".", "9">> >>) =>
             NumCalls(p) = 1
        /\ (SeriesReturned(p) /\ re_findall(AlarmMessage(p).NewStateReason) # <<>>) =>
             LET m == snapshot[p][1].joined_count + snapshot[p][1].left_count
             IN /\ DatapointText(p) = <<"2", ".", "9">> => m = 2
                /\ DatapointText(p) = <<"0", ".", "9">> => m = 0
                /\ DatapointText(p) = <<"-", "1", ".", "5">> => m = 0 - 1

\* the left alarm with -1.5 was served as an add of +1, the joined alarm
\* with 0.9 as an add of 0
C21_Witness ==
    \E p, q \in Procs :
        /\ IssuedAdd(p) /\ Completed(p)
        /\ AlarmMessage(p).AlarmName = left_alarm_name
        /\ DatapointText(p) = <<"-", "1", ".", "5">>
        /\ LastEntry(p).delta = 1
        /\ IssuedAdd(q) /\ Completed(q)
        /\ AlarmMessage(q).AlarmName = joined_alarm_name
        /\ DatapointText(q) = <<"0", ".", "9">>
        /\ LastEntry(q).delta = 0

NoDatapoint(p) ==
    /\ kind[p] = "alarm_dynamodb" /\ pc[p] # "idle"
    /\ re_findall(AlarmMessage(p).NewStateReason) = <<>>

\* C22: when the reason text has no bracketed datapoint, extract_datapoint
\* fails with the index error of the empty match list, and count() of the
\* alarm-to-store command fails with it, whatever the alarm name, without
\* an add; the counter is unchanged.
C22_NoDatapointFails ==
    \A p \in Procs :
        NoDatapoint(p) =>
            /\ extract_datapoint(AlarmMessage(p).NewStateReason).raised = "IndexError"
            /\ NumCalls(p) = 0
            /\ ~resp[p].sent
            /\ logged[p] = <<>>
            /\ pc[p] \in {"count", "done"}
            /\ pc[p] = "done" => outcome[p] = "IndexError"
            /\ NoInterference(p) => CounterValue(item) = BaseValue(p)

\* failed for the joined alarm and for an unknown alarm name alike
C22_Witness ==
    \E p, q \in Procs :
        /\ NoDatapoint(p) /\ pc[p] = "done" /\ outcome[p] = "IndexError"
        /\ AlarmMessage(p).AlarmName = joined_alarm_name
        /\ NoDatapoint(q) /\ pc[q] = "done" /\ outcome[q] = "IndexError"
        /\ AlarmMessage(q).AlarmName \notin {joined_alarm_name, left_alarm_name}

\* -------------------------------------------- claims on the constructor
Constructed(p) == kind[p] = "constructor" /\ pc[p] = "done"

\* C23: constructing MinecraftSwitcher fails with RuntimeError whenever
\* stack_name is not a non-empty string (None, '', a list), and succeeds for
\* every non-empty string whatever table_name and primary_key_column_name
\* are; the constructor calls neither the store nor the stack API.
C23_ConstructorValidates ==
    \A p \in Procs :
        Constructed(p) =>
            LET n == event[p].stack_name
            IN /\ (n.type # "str" \/ n.value = <<>>) => outcome[p] = RuntimeError
               /\ (n.type = "str" /\ n.value # <<>>) =>
                     /\ outcome[p] = "returned"
                     /\ table_name[p] = event[p].table_name
               /\ trace[p] = <<>>
               /\ NumCalls(p) = 0
               /\ item = NoItem
               /\ stack \in {NoStack, [exists |-> TRUE, Parameters |-> <<>>]}

\* '' was refused, and 'S' accepted with no table and no key column
C23_Witness ==
    \E p, q \in Procs :
        /\ Constructed(p) /\ event[p].stack_name = py_string(<<>>)
        /\ outcome[p] = RuntimeError
        /\ Constructed(q) /\ event[q].stack_name = py_string(<<"S">>)
        /\ event[q].table_name = None /\ event[q].primary_key_column_name = None
        /\ outcome[q] = "returned"

\* ------------------------------------- claims on the switch and the counter
\* this step of p issues update_stack
IssuesUpdate(p) ==
    /\ Len(trace'[p]) = Len(trace[p]) + 1
    /\ trace'[p][Len(trace'[p])].op = "update_stack"

Guarded(p) == IsSwitch(p) /\ table_name[p] # None

\* the merge of p is computed and contains a new value: update_stack is p's
\* next step
UpdatePending(p) ==
    /\ Guarded(p) /\ pc[p] = "merge"
    /\ \E i \in 1..Len(params[p]) :
          /\ params[p][i].ParameterKey \in DOMAIN overrode_parameters[p]
          /\ params[p][i].ParameterValue # overrode_parameters[p][params[p][i].ParameterKey]
          /\ ~UsesPrevious(params[p][i])

\* C24 as stated: whatever the interleaving with counter adds, update_stack
\* is never issued at a moment when the persisted count is above 0.
C24_CheckAndAct ==
    [][\A p \in Procs : (Guarded(p) /\ IssuesUpdate(p)) => CounterValue(item) <= 0]_vars

\* C24: update_stack is issued only after the guard of the same call read a
\* count of 0 or less; the read and the update are separate steps, so the
\* count the guard saw, not the one persisted at the update, is what is
\* bounded.
C24_GuardReadPermitted ==
    \A p \in Procs :
        (Guarded(p) /\ (pc[p] \in {"describe", "merge"}
                            \/ CallsOf(p, "update_stack") # <<>>)) =>
            /\ GuardRead(p)
            /\ trace[p][1].op = "get_item"
            /\ GuardCount(p) <= 0

\* the guard read 0, an add of 3 was served since, and the update is next
C24_Witness ==
    \E p \in Procs :
        /\ UpdatePending(p)
        /\ GuardCount(p) = 0
        /\ CounterValue(item) = 3
        /\ Len(history) = mark[p] + 1

\* ------------------------------------------ claims on the order of the batch
\* log_states of p holds a state for every event of every record of the batch
FullyClassified(p) ==
    /\ Len(log_states[p]) = Len(event[p].Records)
    /\ \A i \in 1..Len(event[p].Records) :
          /\ Len(log_states[p][i]) = Len(PayloadOf(event[p].Records[i]).logEvents)
          /\ \A j \in 1..Len(log_states[p][i]) :
                log_states[p][i][j] \in {JOINED, LEFT,
                                         INITIAL_ACTIVATION_OF_KINESIS_DATA_STREAM}

\* this step issues or serves a store add of p that was not there before
AddsForLogs(p) ==
    /\ kind[p] = "logs"
    /\ \/ req'[p].sent /\ ~req[p].sent
       \/ NumServed(p)' > NumServed(p) /\ ~req[p].sent

\* C25: in the log-based count() every update_item is issued from the loop
\* that follows analyze_log_text, when every event of every record of the
\* batch has its state and none of them is unknown; no add of a batch is
\* issued or served while a record of it is still to be classified.
C25_ClassifiedBeforeAdd ==
    [][\A p \in Procs :
          AddsForLogs(p) =>
              /\ pc[p] = "loop"
              /\ FullyClassified(p)
              /\ log_states'[p] = log_states[p]
              /\ ~HasUnknownLine(event[p])]_vars

\* the first add of a batch of two records is served and the second record,
\* classified already, is still to be counted
C25_Witness ==
    \E p \in Procs :
        /\ Started(p)
        /\ Len(event[p].Records) = 2
        /\ NumServed(p) = 1
        /\ FullyClassified(p)
        /\ log_states[p][1] # <<>>
        /\ IsCounted(log_states[p][1][1])
        /\ log_states[p][2] # <<>>
        /\ IsCounted(log_states[p][2][1])
        /\ Len(states[p]) >= 2

\* ------------------------------------ claims on the outcome of the switch
SwitchDone(p) == IsSwitch(p) /\ pc[p] = "done"

\* the names of the remote calls of p, in the order they were made
OpsOf(p) == [i \in 1..Len(trace[p]) |-> trace[p][i].op]

UsersConnected(p) == GuardRead(p) /\ GuardCount(p) > 0

StackAbsent(p) == CallsOf(p, "describe_stacks") # <<>> /\ ~Described(p).exists

UpdateIssued(p) == CallsOf(p, "update_stack") # <<>>

\* C26: the failure conditions of update_cloudformation_stack are evaluated
\* in the order connected count, stack, merge, and the first that applies
\* decides: the counter is read before the stack is looked for, the stack is
\* looked for only when the guard permits, the merge is made only when the
\* stack exists, and a finished call has exactly one of the three errors and
\* an issued update_stack.
C26_FixedOrder ==
    \A p \in Procs :
        /\ (Guarded(p) /\ pc[p] # "guard") =>
              /\ trace[p] # <<>> /\ trace[p][1].op = "get_item"
        /\ SwitchDone(p) =>
              /\ outcome[p] = UserStillConnectedError <=> UsersConnected(p)
              /\ UsersConnected(p) => OpsOf(p) = <<"get_item">>
              /\ outcome[p] = NotFoundStackError <=> StackAbsent(p)
              /\ StackAbsent(p) =>
                    /\ OpsOf(p) \in {<<"describe_stacks">>, <<"get_item", "describe_stacks">>}
                    /\ params[p] = <<>>
              /\ outcome[p] = UnnecessaryToUpdateStackError <=>
                    (Merged(p) /\ \A i \in 1..Len(params[p]) : UsesPrevious(params[p][i]))
              /\ outcome[p] \in {"returned", ClientError} <=> UpdateIssued(p)
              /\ UpdateIssued(p) =>
                    /\ OpsOf(p) \in {<<"describe_stacks", "update_stack">>,
                                     <<"get_item", "describe_stacks", "update_stack">>}
                    /\ Merged(p)
              /\ outcome[p] \in {UserStillConnectedError, NotFoundStackError,
                                 UnnecessaryToUpdateStackError, "returned", ClientError}

\* no stack: the call that read a count above 0 ends with
\* UserStillConnectedError, the unguarded call with an empty override map
\* with NotFoundStackError
C26_Witness ==
    \E p, q \in Procs :
        /\ SwitchDone(p) /\ SwitchDone(q)
        /\ stack = NoStack
        /\ UsersConnected(p) /\ outcome[p] = UserStillConnectedError
        /\ overrode_parameters[q] = <<>> /\ outcome[q] = NotFoundStackError

\* the list handed to update_stack
Submitted(p) == CallsOf(p, "update_stack")[1].Parameters

StackKeys(st) == {st.Parameters[i].ParameterKey : i \in 1..Len(st.Parameters)}

\* C27: the list submitted to update_stack has one entry per current stack
\* parameter, with the same keys in the same order; a stack key that is not
\* in the overrides is submitted with UsePreviousValue = true and no value;
\* an override key that is not a stack key adds no entry, and overrides made
\* of such keys alone end with UnnecessaryToUpdateStackError and no
\* update_stack.
C27_OneEntryPerParameter ==
    \A p \in Procs :
        /\ (IsSwitch(p) /\ UpdateIssued(p)) =>
              LET cur == Described(p).Parameters
              IN /\ Len(CallsOf(p, "update_stack")) = 1
                 /\ Len(Submitted(p)) = Len(cur)
                 /\ \A i \in 1..Len(cur) :
                       /\ Submitted(p)[i].ParameterKey = cur[i].ParameterKey
                       /\ cur[i].ParameterKey \notin DOMAIN overrode_parameters[p] =>
                             /\ UsesPrevious(Submitted(p)[i])
                             /\ ~HasValue(Submitted(p)[i])
        /\ (Merged(p) /\ DOMAIN overrode_parameters[p] \cap StackKeys(Described(p)) = {}) =>
              /\ ~UpdateIssued(p)
              /\ outcome[p] = UnnecessaryToUpdateStackError

\* stack [A] with overrides {A, B}: one entry is submitted; stack [A] with
\* overrides {B}: nothing to update
C27_Witness ==
    \E p, q \in Procs :
        /\ Merged(p) /\ Merged(q)
        /\ StackKeys(Described(p)) = {"A"}
        /\ DOMAIN overrode_parameters[p] = {"A", "B"}
        /\ UpdateIssued(p) /\ Len(Submitted(p)) = 1
        /\ StackKeys(Described(q)) = {"A"}
        /\ DOMAIN overrode_parameters[q] = {"B"}
        /\ outcome[q] = UnnecessaryToUpdateStackError

\* this step is a step of the switch request p
SwitchStep(p) == kind[p] = "switch" /\ pc'[p] # pc[p]

\* C28: no step of a switch request changes the persisted counter: the row,
\* its existence and its value are the same after every step of
\* update_cloudformation_stack as before it, whatever the outcome of the
\* call.
C28_CounterUntouched ==
    [][\A p \in Procs : SwitchStep(p) => (item' = item /\ history' = history)]_vars

\* with no row in the store, a guarded call that issued the update and a
\* guarded call that found nothing to update: there is still no row
C28_Witness ==
    \E p, q \in Procs :
        /\ SwitchDone(p) /\ SwitchDone(q)
        /\ Guarded(p) /\ Guarded(q)
        /\ outcome[p] = "returned"
        /\ outcome[q] = UnnecessaryToUpdateStackError
        /\ ~item.exists
        /\ history = <<>>

\* the stack as the update of p left it
StackAfter(p) == update_stack_result(Described(p), Submitted(p))

\* C29: when a call with override map O issued its update and the stack holds
\* the submitted values, a second call with the same O that finds the stack
\* so issues no update_stack and ends with UnnecessaryToUpdateStackError.
C29_Idempotent ==
    \A p, q \in Procs :
        (/\ p # q
         /\ SwitchDone(p) /\ outcome[p] = "returned"
         /\ SwitchDone(q)
         /\ overrode_parameters[q] = overrode_parameters[p]
         /\ CallsOf(q, "describe_stacks") # <<>>
         /\ Described(q) = StackAfter(p)) =>
            /\ outcome[q] = UnnecessaryToUpdateStackError
            /\ ~UpdateIssued(q)
            /\ stack = StackAfter(p)

\* {A: 9} twice on a stack whose A was 1
C29_Witness ==
    \E p, q \in Procs :
        /\ p # q
        /\ SwitchDone(p) /\ outcome[p] = "returned"
        /\ SwitchDone(q) /\ outcome[q] = UnnecessaryToUpdateStackError
        /\ overrode_parameters[p] = [k \in {"A"} |-> "9"]
        /\ overrode_parameters[q] = overrode_parameters[p]
        /\ Described(q) = StackAfter(p)
        /\ stack_value(stack, "A") = "9"

\* --------------------------------------------- claims on the sign of the add
\* the add of an alarm-to-store invocation was served
AlarmServed(p) ==
    /\ kind[p] = "alarm_dynamodb" /\ pc[p] \in {"wait", "done"}
    /\ extract_datapoint(AlarmMessage(p).NewStateReason).raised = "none"
    /\ HasEntry(p)

\* C30: in the alarm-to-store command, for every datapoint extract_datapoint
\* accepts, the add of a joined notification does not decrease the counter,
\* the add of a left notification does not increase it, and the reported
\* joined_count and left_count are not negative.
C30_SignOfDelta ==
    \A p \in Procs :
        AlarmServed(p) =>
            /\ AlarmMessage(p).AlarmName = joined_alarm_name =>
                  CounterValue(LastEntry(p).new) >= CounterValue(LastEntry(p).prev)
            /\ AlarmMessage(p).AlarmName = left_alarm_name =>
                  CounterValue(LastEntry(p).new) <= CounterValue(LastEntry(p).prev)
            /\ pc[p] = "done" =>
                  /\ logged[p][1].joined_count >= 0
                  /\ logged[p][1].left_count >= 0

====
